---- MODULE Spec2Model ----
(***************************************************************************)
(* Local-energy-market clearing and settlement engine (BM_LEM).            *)
(*                                                                         *)
(* A bid frame (the pandas DataFrame handed to a mechanism) is a sequence  *)
(* of rows [id, buying, quantity, price]; the row's id is the DataFrame    *)
(* index (the bid identifier).  Prices are exact rationals <<n, d>> in     *)
(* hundredths of the currency unit (0.20 is <<20, 1>>), so that means and  *)
(* midpoints are computed exactly; quantities are integers.  None is the   *)
(* Python None.  A ledger (pm.TransactionManager) is the sequence of the   *)
(* rows added by add_transaction, in order.                                *)
(***************************************************************************)
EXTENDS Integers, Sequences, FiniteSets, TLC

(***************************************************************************)
(* Bounds of the model and program constants.                              *)
(***************************************************************************)
MaxBids == 3        \* bids submitted in one round
MaxQty == 2         \* largest bid quantity
MaxUncovered == 3   \* bids of an uncovered set handed to a residual function
MaxSamples == 1     \* largest num_samples of the Monte-Carlo Shapley run
MaxMembers == 2     \* members of a community whose gain is shared
MaxEnergy == 1      \* largest consumption or generation of a member in a timestamp
MaxPermutations == 2 \* largest shapley_permutations
MaxIterations == 3   \* largest max_iterations of the adjusted uniform price run

FIT == 10           \* kwargs.pop('FIT', 0.1)
TOU == 25           \* kwargs.pop('TOU', 0.25)

\* Bid prices the agents submit: np.clip(bid_price, FIT, TOU).
Prices == {10, 20, 25}

(***************************************************************************)
(* Exact rational arithmetic for prices.                                   *)
(***************************************************************************)
None == <<0, 0>>
\* stands for None where a quantity is expected: below every quantity a frame holds
NoneQ == -1000000

RECURSIVE GCD(_, _)
GCD(a, b) == IF b = 0 THEN a ELSE GCD(b, a % b)

Abs(x) == IF x < 0 THEN -x ELSE x

\* n/d in lowest terms, n and d computed once
InLowestTerms[p \in Int \X Int] ==
    LET g == GCD(Abs(p[1]), p[2])
    IN  <<p[1] \div g, p[2] \div g>>

Norm(n, d) == InLowestTerms[<<n, d>>]

R(n) == <<n, 1>>
RAdd(a, b) == Norm(a[1] * b[2] + b[1] * a[2], a[2] * b[2])
RSub(a, b) == Norm(a[1] * b[2] - b[1] * a[2], a[2] * b[2])
RMul(a, b) == Norm(a[1] * b[1], a[2] * b[2])
RDivInt(a, k) == Norm(a[1], a[2] * k)
RLt(a, b) == a[1] * b[2] < b[1] * a[2]
RLeq(a, b) == a[1] * b[2] <= b[1] * a[2]
RMin(a, b) == IF RLeq(a, b) THEN a ELSE b
RMax(a, b) == IF RLeq(a, b) THEN b ELSE a
RAbs(a) == <<Abs(a[1]), a[2]>>
\* max(lo, min(x, hi))
Clip(x, lo, hi) == RMax(lo, RMin(x, hi))

Min(a, b) == IF a <= b THEN a ELSE b

\* a local variable: Op's parameter stands for the value assigned to it
With(v, Op(_)) == Op(v)

(***************************************************************************)
(* Frames.                                                                 *)
(***************************************************************************)
Row(i, b, q, p) == [id |-> i, buying |-> b, quantity |-> q, price |-> p]

RECURSIVE SumQ(_)
\* frame.quantity.sum()
SumQ(f) == IF f = <<>> THEN 0 ELSE Head(f).quantity + SumQ(Tail(f))

RECURSIVE SumP(_)
SumP(f) == IF f = <<>> THEN 0 ELSE Head(f).price + SumP(Tail(f))

IsBuy(r) == r.buying
IsSell(r) == ~r.buying
\* bids[bids['buying']] and bids[~bids['buying']]
Buyers(f) == SelectSeq(f, IsBuy)
Sellers(f) == SelectSeq(f, IsSell)

RECURSIVE InsertAsc(_, _)
InsertAsc(r, s) ==
    IF s = <<>> THEN <<r>>
    ELSE IF r.price < Head(s).price THEN <<r>> \o s
    ELSE <<Head(s)>> \o InsertAsc(r, Tail(s))

RECURSIVE InsertDesc(_, _)
InsertDesc(r, s) ==
    IF s = <<>> THEN <<r>>
    ELSE IF r.price > Head(s).price THEN <<r>> \o s
    ELSE <<Head(s)>> \o InsertDesc(r, Tail(s))

RECURSIVE SortAsc(_)
\* sort_values('price', ascending=True); rows of equal price keep frame order
SortAsc(f) ==
    IF f = <<>> THEN <<>>
    ELSE InsertAsc(f[Len(f)], SortAsc(SubSeq(f, 1, Len(f) - 1)))

RECURSIVE SortDesc(_)
\* sort_values('price', ascending=False); rows of equal price keep frame order
SortDesc(f) ==
    IF f = <<>> THEN <<>>
    ELSE InsertDesc(f[Len(f)], SortDesc(SubSeq(f, 1, Len(f) - 1)))

\* frame.loc[frame.index == i, 'quantity'] -= q
Dec(f, i, q) ==
    [k \in 1..Len(f) |->
        IF f[k].id = i THEN [f[k] EXCEPT !.quantity = @ - q] ELSE f[k]]

Tx(i, q, p) == [bid |-> i, quantity |-> q, price |-> p]

RECURSIVE ApplyTrans(_, _)
\* for each ledger row: if bid in frame.index: frame.loc[bid, 'quantity'] -= quantity
ApplyTrans(f, t) ==
    IF t = <<>> THEN f
    ELSE ApplyTrans(Dec(f, Head(t).bid, Head(t).quantity), Tail(t))

(***************************************************************************)
(* pricing_UP.find_clearing_price_and_quantity                             *)
(***************************************************************************)
PriceSet(f) == {f[k].price : k \in 1..Len(f)}

RECURSIVE SortedSeq(_)
\* sorted(set(...))
SortedSeq(S) ==
    IF S = {} THEN <<>>
    ELSE LET m == CHOOSE x \in S : \A y \in S : x <= y
         IN  <<m>> \o SortedSeq(S \ {m})

RECURSIVE SumQGeq(_, _)
\* buyers.loc[buyers['price'] >= p, 'quantity'].sum()
SumQGeq(f, p) ==
    IF f = <<>> THEN 0
    ELSE (IF Head(f).price >= p THEN Head(f).quantity ELSE 0) + SumQGeq(Tail(f), p)

RECURSIVE SumQLeq(_, _)
\* sellers.loc[sellers['price'] <= p, 'quantity'].sum()
SumQLeq(f, p) ==
    IF f = <<>> THEN 0
    ELSE (IF Head(f).price <= p THEN Head(f).quantity ELSE 0) + SumQLeq(Tail(f), p)

\* variant: the supply side counted without its price condition
traded_qty_any_seller(f, p) == Min(SumQGeq(Buyers(f), p), SumQ(Sellers(f)))

\* traded_qty = min(demand_qty, supply_qty)
traded_qty(f, p) == Min(SumQGeq(Buyers(f), p), SumQLeq(Sellers(f), p))

\* variant: a candidate that only ties the best one replaces it
ImprovesOrTies(t, best_quantity) == t >= best_quantity

\* if traded_qty > best_quantity
Improves(t, best_quantity) == t > best_quantity

RECURSIVE ScanCandidates(_, _, _, _)
ScanCandidates(f, cands, best_quantity, best_price) ==
    IF cands = <<>> THEN [quantity |-> best_quantity, price |-> best_price]
    ELSE LET p == Head(cands)
             t == traded_qty(f, p)
         IN  IF Improves(t, best_quantity)
             THEN ScanCandidates(f, Tail(cands), t, R(p))
             ELSE ScanCandidates(f, Tail(cands), best_quantity, best_price)

candidate_prices(f) == SortedSeq(PriceSet(Buyers(f)) \cup PriceSet(Sellers(f)))

find_clearing_price_and_quantity(f) ==
    IF Buyers(f) = <<>> \/ Sellers(f) = <<>>
    THEN [quantity |-> NoneQ, price |-> None]
    ELSE With(ScanCandidates(f, candidate_prices(f), 0, None), LAMBDA best :
             IF best.quantity = 0
             THEN [quantity |-> NoneQ, price |-> None]
             ELSE best)

(***************************************************************************)
(* pricing_UP.uniform_price_mechanism                                      *)
(***************************************************************************)
RECURSIVE Execute(_, _, _)
\* one side's execution loop: rows in matching order, qty_left to place
Execute(side, qty_left, price) ==
    IF side = <<>> THEN <<>>
    ELSE LET q == Min(Head(side).quantity, qty_left)
         IN  IF q <= 0 THEN Execute(Tail(side), qty_left, price)
             ELSE IF qty_left - q <= 0 THEN <<Tx(Head(side).id, q, price)>>
             ELSE <<Tx(Head(side).id, q, price)>> \o Execute(Tail(side), qty_left - q, price)

RECURSIVE WillingBuyers(_, _)
\* bids[(bids['buying']) & (bids['price'] >= clearing_price)]
WillingBuyers(f, p) ==
    IF f = <<>> THEN <<>>
    ELSE (IF Head(f).buying /\ RLeq(p, R(Head(f).price)) THEN <<Head(f)>> ELSE <<>>)
         \o WillingBuyers(Tail(f), p)

RECURSIVE WillingSellers(_, _)
\* bids[(~bids['buying']) & (bids['price'] <= clearing_price)]
WillingSellers(f, p) ==
    IF f = <<>> THEN <<>>
    ELSE (IF ~Head(f).buying /\ RLeq(R(Head(f).price), p) THEN <<Head(f)>> ELSE <<>>)
         \o WillingSellers(Tail(f), p)

\* variant: the buyers' loop left out
ExecuteSellersOnly(buyers, sellers, traded_quantity, clearing_price) ==
    [trans |-> Execute(sellers, traded_quantity, clearing_price),
     clearing_quantity |-> traded_quantity,
     clearing_price |-> clearing_price]

\* the sellers' loop, then the buyers' loop
ExecuteBoth(buyers, sellers, traded_quantity, clearing_price) ==
    [trans |-> Execute(sellers, traded_quantity, clearing_price)
               \o Execute(buyers, traded_quantity, clearing_price),
     clearing_quantity |-> traded_quantity,
     clearing_price |-> clearing_price]

\* variant: the `is None` check on the clearing result left out
uniform_price_mechanism_unguarded(f) ==
    With(find_clearing_price_and_quantity(f), LAMBDA c :
        With(SortDesc(WillingBuyers(f, c.price)), LAMBDA buyers :
        With(SortAsc(WillingSellers(f, c.price)), LAMBDA sellers :
            ExecuteBoth(buyers, sellers, Min(SumQ(buyers), SumQ(sellers)), c.price))))

uniform_price_mechanism(f) ==
    With(find_clearing_price_and_quantity(f), LAMBDA c :
        IF c.price = None \/ c.quantity = NoneQ
        THEN [trans |-> <<>>, clearing_quantity |-> 0, clearing_price |-> None]
        ELSE With(SortDesc(WillingBuyers(f, c.price)), LAMBDA buyers :
             With(SortAsc(WillingSellers(f, c.price)), LAMBDA sellers :
                 ExecuteBoth(buyers, sellers, Min(SumQ(buyers), SumQ(sellers)), c.price))))

(***************************************************************************)
(* The first step shared by every two_steps_*_mechanism: run the uniform   *)
(* price mechanism, copy its ledger, subtract it from a copy of the bids.  *)
(***************************************************************************)
HasQuantity(r) == r.quantity > 0

Primary(f) ==
    With(uniform_price_mechanism(f), LAMBDA up :
    With(ApplyTrans(f, up.trans), LAMBDA bidsUP :
        [trans_UP |-> up.trans,
         UPprice |-> up.clearing_price,
         UPq_ |-> up.clearing_quantity,
         bidsUP |-> bidsUP,
         unsold_quantity |-> SumQ(Sellers(bidsUP)),
         demanded_quantity |-> SumQ(Buyers(bidsUP)),
         bids_uncovered |-> SelectSeq(bidsUP, HasQuantity)]))

\* if unsold_quantity > 0 and demanded_quantity > 0
ResidualRuns(pr) == pr.unsold_quantity > 0 /\ pr.demanded_quantity > 0

(***************************************************************************)
(* The allocation loops shared by APM, CFRM, WAM, MMP, MPAS and IPA.       *)
(***************************************************************************)
\* long_side, short_side: the buyers are the long side when they ask for more
LongShort(bu) ==
    With(SortDesc(Buyers(bu)), LAMBDA buying_bids :
    With(SortAsc(Sellers(bu)), LAMBDA selling_bids :
        IF SumQ(buying_bids) > SumQ(selling_bids)
        THEN [long_side |-> buying_bids, short_side |-> selling_bids]
        ELSE [long_side |-> selling_bids, short_side |-> buying_bids]))

RECURSIVE ShortLoop(_, _)
\* for i, x in short_side.iterrows(): ... traded_quantity -= trade_qty
ShortLoop(side, traded_quantity) ==
    IF side = <<>> \/ traded_quantity <= 0
    THEN [alloc |-> <<>>, traded_quantity |-> traded_quantity]
    ELSE LET trade_qty == Min(Head(side).quantity, traded_quantity)
             rest == ShortLoop(Tail(side), traded_quantity - trade_qty)
         IN  [alloc |-> <<[row |-> Head(side), quantity |-> trade_qty]>> \o rest.alloc,
              traded_quantity |-> rest.traded_quantity]

RECURSIVE LongLoop(_, _, _)
\* for i, x in long_side.iterrows(): if traded_quantity <= 0: break ...
LongLoop(side, traded_quantity, quantity_added) ==
    IF side = <<>> \/ traded_quantity <= 0 THEN <<>>
    ELSE LET x_quantity == Min(Head(side).quantity, traded_quantity - quantity_added)
         IN  <<[row |-> Head(side), quantity |-> x_quantity]>>
             \o LongLoop(Tail(side), traded_quantity, quantity_added + x_quantity)

CommonAllocation(bu) ==
    With(LongShort(bu), LAMBDA ls :
    With(ShortLoop(ls.short_side, SumQ(ls.short_side)), LAMBDA sh :
        [long_side |-> ls.long_side,
         short_side |-> ls.short_side,
         short |-> sh.alloc,
         long |-> LongLoop(ls.long_side, sh.traded_quantity, 0)]))

\* every allocation recorded at one price
AtPrice(alloc, p) ==
    [k \in 1..Len(alloc) |-> Tx(alloc[k].row.id, alloc[k].quantity, p)]

\* the short side's rows, then the long side's, all at price p
AllAtPrice(a, p) == AtPrice(a.short, p) \o AtPrice(a.long, p)

\* what a residual function hands back: the frame it decremented, the rows it
\* added to the ledger, the price it returns
Residual(bu, t, p) == [bids |-> ApplyTrans(bu, t), trans |-> t, price |-> p]

RECURSIVE MaxPrice(_)
MaxPrice(f) ==
    IF Len(f) = 1 THEN Head(f).price
    ELSE LET m == MaxPrice(Tail(f)) IN IF Head(f).price > m THEN Head(f).price ELSE m

RECURSIVE MinPrice(_)
MinPrice(f) ==
    IF Len(f) = 1 THEN Head(f).price
    ELSE LET m == MinPrice(Tail(f)) IN IF Head(f).price < m THEN Head(f).price ELSE m

\* frame.price.mean()
MeanPrice(f) == Norm(SumP(f), Len(f))

RECURSIVE SumPQ(_)
\* frame.price.multiply(frame.quantity).sum()
SumPQ(f) == IF f = <<>> THEN 0 ELSE Head(f).price * Head(f).quantity + SumPQ(Tail(f))

(***************************************************************************)
(* The residual functions.  Each takes bids_uncovered (and its kwargs) and *)
(* gives Residual(...).                                                    *)
(***************************************************************************)
RECURSIVE APMSide(_, _)
\* avg_price = (x.price + other_side.iloc[0].price) / 2 for every row x
APMSide(alloc, other) ==
    IF alloc = <<>> THEN <<>>
    ELSE <<Tx(Head(alloc).row.id, Head(alloc).quantity,
              Norm(Head(alloc).row.price + Head(other).price, 2))>>
         \o APMSide(Tail(alloc), other)

\* the short side's rows, then the long side's, each at its own average price
APMTrans(a) == APMSide(a.short, a.long_side) \o APMSide(a.long, a.short_side)

average_price_method(bu) == Residual(bu, APMTrans(CommonAllocation(bu)), None)

\* (buying_bids.price.mean() + selling_bids.price.mean()) / 2
midpoint_price(bu) == RDivInt(RAdd(MeanPrice(Buyers(bu)), MeanPrice(Sellers(bu))), 2)

cap_and_floor_range_midpoint(bu) ==
    With(midpoint_price(bu), LAMBDA p :
        Residual(bu, AllAtPrice(CommonAllocation(bu), p), p))

weighted_price(bu) ==
    Norm(SumPQ(Buyers(bu)) + SumPQ(Sellers(bu)), SumQ(Buyers(bu)) + SumQ(Sellers(bu)))

weighted_average_method(bu) ==
    With(weighted_price(bu), LAMBDA p :
        Residual(bu, AllAtPrice(CommonAllocation(bu), p), p))

\* (buying_bids.price.max() + selling_bids.price.min()) / 2
marginal_price(bu) == Norm(MaxPrice(Buyers(bu)) + MinPrice(Sellers(bu)), 2)

modified_marginal_price(bu) ==
    With(marginal_price(bu), LAMBDA p :
        Residual(bu, AllAtPrice(CommonAllocation(bu), p), p))

\* (buy_price_max + sell_price_min) / 2 + alpha * spread
adjusted_price(bu, alpha) ==
    LET buy_price_max == MaxPrice(Buyers(bu))
        sell_price_min == MinPrice(Sellers(bu))
        spread == buy_price_max - sell_price_min
    IN  RAdd(Norm(buy_price_max + sell_price_min, 2), RMul(alpha, R(spread)))

marginal_price_adjusted_by_spread(bu, alpha) ==
    Residual(bu, AllAtPrice(CommonAllocation(bu), adjusted_price(bu, alpha)), None)

\* one pass of the while loop's body: the next price
new_price(bu, adj, theta, lo, hi) ==
    Clip(RAdd(adj, RDivInt(RMul(theta, RAdd(RSub(R(MaxPrice(bu)), adj),
                                            RSub(adj, R(MinPrice(bu))))), 2)),
         lo, hi)

RECURSIVE PriceLoop(_, _, _, _, _, _)
\* while True: ... if abs(new_price - adjusted_price) < epsilon: break
PriceLoop(bu, adj, theta, epsilon, lo, hi) ==
    With(new_price(bu, adj, theta, lo, hi), LAMBDA np :
        IF RLt(RAbs(RSub(np, adj)), epsilon) THEN adj
        ELSE PriceLoop(bu, np, theta, epsilon, lo, hi))

iterative_price_adjustment(bu, theta, epsilon, MP, lo, hi) ==
    With(PriceLoop(bu, MP, theta, epsilon, lo, hi), LAMBDA p :
        Residual(bu, AllAtPrice(CommonAllocation(bu), p), p))

(***************************************************************************)
(* pricing_MUP.mediation_mechanism                                         *)
(***************************************************************************)
\* long_side.loc[long_side.index == j, 'quantity'] = q
SetQ(f, j, q) ==
    [k \in 1..Len(f) |-> IF f[k].id = j THEN [f[k] EXCEPT !.quantity = q] ELSE f[k]]

RECURSIVE Drop(_, _)
\* long_side.drop(j)
Drop(f, j) ==
    IF f = <<>> THEN <<>>
    ELSE (IF Head(f).id = j THEN <<>> ELSE <<Head(f)>>) \o Drop(Tail(f), j)

RECURSIVE MediateInner(_, _, _, _)
\* for j, y in long_side.iterrows(): the rows are those of long_side as it was
\* when the loop started; st carries long_side, the ledger rows, price and q_
MediateInner(x, squantity, rows, st) ==
    IF rows = <<>> THEN st
    ELSE LET y == Head(rows)
             lquantity == y.quantity
             price == Norm(x.price + y.price, 2)
             quantity == IF squantity < lquantity THEN squantity ELSE lquantity
             left == squantity - quantity
             nst == [long_side |-> IF squantity < lquantity
                                   THEN SetQ(st.long_side, y.id, lquantity - quantity)
                                   ELSE Drop(st.long_side, y.id),
                     trans |-> st.trans \o <<Tx(x.id, quantity, price),
                                             Tx(y.id, quantity, price)>>,
                     price |-> price,
                     q_ |-> st.q_ + quantity]
         IN  IF left = 0 THEN nst ELSE MediateInner(x, left, Tail(rows), nst)

RECURSIVE MediateOuter(_, _)
\* for i, x in short_side.iterrows()
MediateOuter(rows, st) ==
    IF rows = <<>> THEN st
    ELSE MediateOuter(Tail(rows),
                      MediateInner(Head(rows), Head(rows).quantity, st.long_side, st))

\* the loops' state before the first short-side row
MediateStart(ls) ==
    MediateOuter(ls.short_side,
                 [long_side |-> ls.long_side, trans |-> <<>>, price |-> None, q_ |-> 0])

\* variant: the quantities matched are not taken off the bids
mediation_mechanism_bids_kept(bu) ==
    With(MediateStart(LongShort(bu)), LAMBDA st :
        [bids |-> bu, trans |-> st.trans, price |-> st.price, q_ |-> st.q_])

mediation_mechanism(bu) ==
    With(MediateStart(LongShort(bu)), LAMBDA st :
        [bids |-> ApplyTrans(bu, st.trans), trans |-> st.trans,
         price |-> st.price, q_ |-> st.q_])

(***************************************************************************)
(* pricing_UPNR.newton_raphson_adjustment.  The price found by the         *)
(* floating-point Newton-Raphson search is an input of the operator.       *)
(***************************************************************************)
RECURSIVE NRShort(_, _)
\* all the short side trades at price
NRShort(side, price) ==
    IF side = <<>> THEN <<>>
    ELSE <<Tx(Head(side).id, Head(side).quantity, price)>> \o NRShort(Tail(side), price)

RECURSIVE NRLong(_, _, _, _)
\* the long side trades up to traded_quantity
NRLong(side, traded_quantity, quantity_added, price) ==
    IF side = <<>> \/ quantity_added = traded_quantity THEN <<>>
    ELSE LET x_quantity == IF Head(side).quantity + quantity_added <= traded_quantity
                           THEN Head(side).quantity
                           ELSE traded_quantity - quantity_added
         IN  <<Tx(Head(side).id, x_quantity, price)>>
             \o NRLong(Tail(side), traded_quantity, quantity_added + x_quantity, price)

\* variant: only the upper bound is tested
OutOfBoundsAbove(price, lo, hi) == RLt(hi, price)

\* if price > TOU or price < FIT
OutOfBounds(price, lo, hi) == RLt(hi, price) \/ RLt(price, lo)

\* the ledger rows once the price is accepted
NRTrans(buyers, sellers, QB, QS, price) ==
    IF QB > QS
    THEN NRShort(sellers, price) \o NRLong(buyers, Min(QS, QB), 0, price)
    ELSE NRShort(buyers, price) \o NRLong(sellers, Min(QS, QB), 0, price)

newton_raphson_adjustment(bu, price, lo, hi) ==
    With(SortDesc(Buyers(bu)), LAMBDA buyers :
    With(SortAsc(Sellers(bu)), LAMBDA sellers :
    With(NRTrans(buyers, sellers, SumQ(buyers), SumQ(sellers), price), LAMBDA t :
        IF OutOfBounds(price, lo, hi)
        THEN [bids |-> bu, trans |-> <<>>, price |-> R(0), q_ |-> 0]
        ELSE [bids |-> ApplyTrans(bu, t), trans |-> t, price |-> price,
              q_ |-> Min(SumQ(sellers), SumQ(buyers))])))

(***************************************************************************)
(* The pairwise matching loop of NBS, VCG, CGT and CGTS.                   *)
(***************************************************************************)
\* quantity = min(row['quantity'], seller['quantity'])
PairQuantity(row, seller, current) == Min(row.quantity, seller.quantity)

RECURSIVE PairInner(_, _, _)
\* for j, seller in matching_sellers.iterrows(): row is the buyer's row as read by
\* iterrows, current the buyer's quantity in bids_uncovered
PairInner(row, current, sellers) ==
    IF sellers = <<>> THEN <<>>
    ELSE LET quantity == PairQuantity(row, Head(sellers), current)
             pair == [buyer |-> row, seller |-> Head(sellers), quantity |-> quantity]
         IN  IF current - quantity = 0 THEN <<pair>>
             ELSE <<pair>> \o PairInner(row, current - quantity, Tail(sellers))

RECURSIVE PairTrans(_)
PairTrans(pairs) ==
    IF pairs = <<>> THEN <<>>
    ELSE <<Tx(Head(pairs).buyer.id, Head(pairs).quantity, None),
           Tx(Head(pairs).seller.id, Head(pairs).quantity, None)>> \o PairTrans(Tail(pairs))

RECURSIVE PairOuter(_, _)
\* for i, row in bids_uncovered.iterrows(): if row['buying']: ...
PairOuter(rows, cur) ==
    IF rows = <<>> THEN <<>>
    ELSE IF ~Head(rows).buying THEN PairOuter(Tail(rows), cur)
    ELSE LET ps == PairInner(Head(rows), Head(rows).quantity, Sellers(cur))
         IN  ps \o PairOuter(Tail(rows), ApplyTrans(cur, PairTrans(ps)))

Pairwise(bu) == PairOuter(bu, bu)

RECURSIVE NBSTrans(_, _)
NBSTrans(pairs, p) ==
    IF pairs = <<>> THEN <<>>
    ELSE <<Tx(Head(pairs).buyer.id, Head(pairs).quantity, p),
           Tx(Head(pairs).seller.id, Head(pairs).quantity, p)>> \o NBSTrans(Tail(pairs), p)

nash_bargaining_solution(bu, cap, floor, theta, epsilon, MP) ==
    With(PriceLoop(bu, MP, theta, epsilon, floor, cap), LAMBDA p :
        Residual(bu, NBSTrans(Pairwise(bu), p), p))

RECURSIVE SumSameId(_, _)
SumSameId(b, sellers) ==
    IF sellers = <<>> THEN 0
    ELSE (IF Head(sellers).id = b.id THEN b.price - Head(sellers).price ELSE 0)
         + SumSameId(b, Tail(sellers))

RECURSIVE SumAligned(_, _)
SumAligned(buyers, sellers) ==
    IF buyers = <<>> THEN 0
    ELSE SumSameId(Head(buyers), sellers) + SumAligned(Tail(buyers), sellers)

\* (bids.loc[bids['buying'], 'price'] - bids.loc[~bids['buying'], 'price']).sum():
\* the subtraction pairs the two Series by index label, a label present on one
\* side only gives NaN, and sum() skips NaN
calculate_welfare(f) == SumAligned(Buyers(f), Sellers(f))

\* max(floor, min(MP - (welfare_without - total_welfare - own), cap))
VCGPrice(bu, row, cap, floor, MP) ==
    Clip(RSub(MP, R(calculate_welfare(Drop(bu, row.id)) - calculate_welfare(bu)
                    - row.price)),
         floor, cap)

RECURSIVE VCGTrans(_, _, _, _, _)
VCGTrans(bu, pairs, cap, floor, MP) ==
    IF pairs = <<>> THEN <<>>
    ELSE <<Tx(Head(pairs).buyer.id, Head(pairs).quantity,
              VCGPrice(bu, Head(pairs).buyer, cap, floor, MP)),
           Tx(Head(pairs).seller.id, Head(pairs).quantity,
              VCGPrice(bu, Head(pairs).seller, cap, floor, MP))>>
         \o VCGTrans(bu, Tail(pairs), cap, floor, MP)

\* (P_Bi + P_Sj) / 2 of the last pair matched; MP when no pair was
VCGLast(bu, pairs, cap, floor, MP) ==
    IF pairs = <<>> THEN MP
    ELSE RDivInt(RAdd(VCGPrice(bu, pairs[Len(pairs)].buyer, cap, floor, MP),
                      VCGPrice(bu, pairs[Len(pairs)].seller, cap, floor, MP)), 2)

vickrey_clarke_groves(bu, cap, floor, MP) ==
    With(Pairwise(bu), LAMBDA pairs :
        Residual(bu, VCGTrans(bu, pairs, cap, floor, MP), VCGLast(bu, pairs, cap, floor, MP)))

(***************************************************************************)
(* Shapley values: pricing_CGT (all orderings) and pricing_CGTS (sampled). *)
(***************************************************************************)
Ids(f) == {f[k].id : k \in 1..Len(f)}

\* the orderings of a set of ids
Orderings(S) ==
    {o \in [1..Cardinality(S) -> S] : \A a, b \in 1..Cardinality(S) : o[a] = o[b] => a = b}

RowOf(f, i) == f[CHOOSE k \in 1..Len(f) : f[k].id = i]

\* bids_uncovered.loc[S]
Loc(f, S) == [k \in 1..Len(S) |-> RowOf(f, S[k])]

RECURSIVE SumOver(_, _, _)
\* the marginal contributions of p summed over a set of orderings of the others
SumOver(f, p, perms) ==
    IF perms = {} THEN 0
    ELSE LET S == CHOOSE o \in perms : TRUE
             W_S == IF Len(S) = 0 THEN 0 ELSE calculate_welfare(Loc(f, S))
             W_S_plus_p == calculate_welfare(Loc(f, S \o <<p>>))
         IN  (W_S_plus_p - W_S) + SumOver(f, p, perms \ {S})

\* variant: a participant's value is its own bid price
shapley_exact_own_price(f, p) == R(RowOf(f, p).price)

\* sum(marginal_contributions) / len(marginal_contributions)
shapley_exact(f, p) ==
    LET perms == Orderings(Ids(f) \ {p})
    IN  Norm(SumOver(f, p, perms), Cardinality(perms))

RECURSIVE SampleContribution(_, _, _, _)
\* one sampled ordering: W(S + [p]) - W(S) for S the participants before p
SampleContribution(f, p, order, k) ==
    IF order[k] = p
    THEN calculate_welfare(Loc(f, SubSeq(order, 1, k)))
         - (IF k = 1 THEN 0 ELSE calculate_welfare(Loc(f, SubSeq(order, 1, k - 1))))
    ELSE SampleContribution(f, p, order, k + 1)

RECURSIVE SumSamples(_, _, _)
SumSamples(f, p, orders) ==
    IF orders = <<>> THEN 0
    ELSE SampleContribution(f, p, Head(orders), 1) + SumSamples(f, p, Tail(orders))

\* variant: a participant's value is its rank in the first sampled order times FIT
shapley_monte_carlo_by_rank(f, p, orders) ==
    R(FIT * (CHOOSE k \in 1..Len(orders[1]) : orders[1][k] = p))

\* shapley_values[p] += (W_S_plus_p - W_S) / num_samples over the samples
shapley_monte_carlo(f, p, orders) == Norm(SumSamples(f, p, orders), Len(orders))

RECURSIVE RSum(_)
RSum(s) == IF s = <<>> THEN R(0) ELSE RAdd(Head(s), RSum(Tail(s)))

\* max(floor, min((shapley_values[i] + shapley_values[j]) / 2, cap))
PairPrice(si, sj, cap, floor) == Clip(RDivInt(RAdd(si, sj), 2), floor, cap)

RECURSIVE ShapleyTrans(_, _, _, _)
\* sv: the Shapley value of every row of the frame, by position
ShapleyTrans(pairs, sv, cap, floor) ==
    IF pairs = <<>> THEN <<>>
    ELSE LET p == PairPrice(sv[Head(pairs).buyer.id], sv[Head(pairs).seller.id], cap, floor)
         IN  <<Tx(Head(pairs).buyer.id, Head(pairs).quantity, p),
               Tx(Head(pairs).seller.id, Head(pairs).quantity, p)>>
             \o ShapleyTrans(Tail(pairs), sv, cap, floor)

\* sum(shapley_values.values()) / len(shapley_values)
MeanShapley(bu, sv) ==
    RDivInt(RSum([k \in 1..Len(bu) |-> sv[bu[k].id]]), Len(bu))

cooperative_game_theory_shapley(bu, cap, floor) ==
    With([i \in Ids(bu) |-> shapley_exact(bu, i)], LAMBDA sv :
        Residual(bu, ShapleyTrans(Pairwise(bu), sv, cap, floor), MeanShapley(bu, sv)))

cooperative_game_theory_shapley_monte_carlo(bu, cap, floor, orders) ==
    With([i \in Ids(bu) |-> shapley_monte_carlo(bu, i, orders)], LAMBDA sv :
        Residual(bu, ShapleyTrans(Pairwise(bu), sv, cap, floor), MeanShapley(bu, sv)))

(***************************************************************************)
(* The two_steps_*_mechanism functions.  Each gives the outcome of the     *)
(* call: the exception raised (or "none"), the ledger and the summary      *)
(* returned, and the frames the call ended with.                           *)
(***************************************************************************)
NoExtra ==
    [clearing_quantity |-> NoneQ, clearing_price |-> None, quantity |-> NoneQ,
     price |-> None, Total_quantity |-> NoneQ]

\* the residual function raised: nothing is returned, the frames are as the first
\* step left them
Raises(pr, e) ==
    [raised |-> e, trans |-> <<>>, extra |-> NoExtra, trans_UP |-> pr.trans_UP,
     bidsUP |-> pr.bidsUP, bids_uncovered |-> pr.bids_uncovered,
     bidsM |-> pr.bids_uncovered]

\* the `is None` normalisations and the extra dict
Returns(pr, bidsM, t, q_, price) ==
    LET q == IF q_ = NoneQ THEN 0 ELSE q_
        UPq == IF pr.UPq_ = NoneQ THEN 0 ELSE pr.UPq_
    IN  [raised |-> "none",
         trans |-> pr.trans_UP \o t,
         extra |-> [clearing_quantity |-> UPq,
                    clearing_price |-> pr.UPprice,
                    quantity |-> q,
                    price |-> IF price = None THEN pr.UPprice ELSE price,
                    Total_quantity |-> UPq + q],
         trans_UP |-> pr.trans_UP,
         bidsUP |-> pr.bidsUP,
         bids_uncovered |-> pr.bids_uncovered,
         bidsM |-> bidsM]

\* variant: the residual price starts at 0 instead of UPprice
NotCalledZeroPrice(pr) == Returns(pr, pr.bids_uncovered, <<>>, 0, R(0))

\* Xq_ = 0; Xprice = UPprice: what is reported when the residual function is not called
NotCalled(pr) == Returns(pr, pr.bids_uncovered, <<>>, 0, pr.UPprice)

\* Xq_ = bidsM.quantity.sum()
FrameQuantity(r) == SumQ(r.bids)

two_steps_APM_mechanism(f) ==
    With(Primary(f), LAMBDA pr :
        IF ResidualRuns(pr)
        THEN With(average_price_method(pr.bids_uncovered),
                  LAMBDA r : Returns(pr, r.bids, r.trans, FrameQuantity(r), IF r.bids # <<>> THEN MeanPrice(r.bids) ELSE pr.UPprice))
        ELSE NotCalled(pr))

two_steps_CFRM_mechanism(f) ==
    With(Primary(f), LAMBDA pr :
        IF ResidualRuns(pr)
        THEN With(cap_and_floor_range_midpoint(pr.bids_uncovered),
                  LAMBDA r : Returns(pr, r.bids, r.trans, FrameQuantity(r), r.price))
        ELSE NotCalled(pr))

two_steps_WAM_mechanism(f) ==
    With(Primary(f), LAMBDA pr :
        IF ResidualRuns(pr)
        THEN With(weighted_average_method(pr.bids_uncovered),
                  LAMBDA r : Returns(pr, r.bids, r.trans, FrameQuantity(r), r.price))
        ELSE NotCalled(pr))

two_steps_MMP_mechanism(f) ==
    With(Primary(f), LAMBDA pr :
        IF ResidualRuns(pr)
        THEN With(modified_marginal_price(pr.bids_uncovered),
                  LAMBDA r : Returns(pr, r.bids, r.trans, FrameQuantity(r), r.price))
        ELSE NotCalled(pr))

two_steps_MPAS_mechanism(f, alpha) ==
    With(Primary(f), LAMBDA pr :
        IF ResidualRuns(pr)
        THEN With(marginal_price_adjusted_by_spread(pr.bids_uncovered, alpha),
                  LAMBDA r : Returns(pr, r.bids, r.trans, FrameQuantity(r), IF r.bids # <<>> THEN MeanPrice(r.bids) ELSE pr.UPprice))
        ELSE NotCalled(pr))

\* arithmetic on UPprice = None raises TypeError
two_steps_IPA_mechanism(f, theta, epsilon, lo, hi) ==
    With(Primary(f), LAMBDA pr :
        IF ResidualRuns(pr)
        THEN IF pr.UPprice = None THEN Raises(pr, "TypeError")
             ELSE With(iterative_price_adjustment(pr.bids_uncovered, theta, epsilon, pr.UPprice, lo, hi),
                       LAMBDA r : Returns(pr, r.bids, r.trans, FrameQuantity(r), r.price))
        ELSE NotCalled(pr))

two_steps_UPM_mechanism(f) ==
    With(Primary(f), LAMBDA pr :
        IF ResidualRuns(pr)
        THEN With(mediation_mechanism(pr.bids_uncovered),
                  LAMBDA r : Returns(pr, r.bids, r.trans, r.q_, r.price))
        ELSE NotCalled(pr))

two_steps_UPNR_mechanism(f, found, lo, hi) ==
    With(Primary(f), LAMBDA pr :
        IF ResidualRuns(pr)
        THEN With(newton_raphson_adjustment(pr.bids_uncovered, found, lo, hi),
                  LAMBDA r : Returns(pr, r.bids, r.trans, r.q_, r.price))
        ELSE NotCalled(pr))

two_steps_NBS_mechanism(f, cap, floor, theta, epsilon) ==
    With(Primary(f), LAMBDA pr :
        IF ResidualRuns(pr)
        THEN IF pr.UPprice = None THEN Raises(pr, "TypeError")
             ELSE With(nash_bargaining_solution(pr.bids_uncovered, cap, floor, theta, epsilon, pr.UPprice),
                       LAMBDA r : Returns(pr, r.bids, r.trans, FrameQuantity(r), r.price))
        ELSE NotCalled(pr))

two_steps_VCG_mechanism(f, cap, floor) ==
    With(Primary(f), LAMBDA pr :
        IF ResidualRuns(pr)
        THEN IF pr.UPprice = None THEN Raises(pr, "TypeError")
             ELSE With(vickrey_clarke_groves(pr.bids_uncovered, cap, floor, pr.UPprice),
                       LAMBDA r : Returns(pr, r.bids, r.trans, FrameQuantity(r), r.price))
        ELSE NotCalled(pr))

two_steps_CGT_mechanism(f, cap, floor) ==
    With(Primary(f), LAMBDA pr :
        IF ResidualRuns(pr)
        THEN With(cooperative_game_theory_shapley(pr.bids_uncovered, cap, floor),
                  LAMBDA r : Returns(pr, r.bids, r.trans, FrameQuantity(r), r.price))
        ELSE NotCalled(pr))

two_steps_CGTS_mechanism(f, cap, floor, orders) ==
    With(Primary(f), LAMBDA pr :
        IF ResidualRuns(pr)
        THEN With(cooperative_game_theory_shapley_monte_carlo(pr.bids_uncovered, cap, floor, orders),
                  LAMBDA r : Returns(pr, r.bids, r.trans, FrameQuantity(r), r.price))
        ELSE NotCalled(pr))

\* uniform_price_mechanism called as a mechanism of its own
UPOutcome(f) ==
    With(uniform_price_mechanism(f), LAMBDA up :
        [raised |-> "none",
         trans |-> up.trans,
         extra |-> [NoExtra EXCEPT !.clearing_quantity = up.clearing_quantity,
                                   !.clearing_price = up.clearing_price],
         trans_UP |-> up.trans,
         bidsUP |-> <<>>, bids_uncovered |-> <<>>, bidsM |-> <<>>])

(***************************************************************************)
(* Value sharing.  Energies are whole kWh, prices hundredths, gains and    *)
(* allocations exact fractions.  An array over the members is a sequence,  *)
(* member i of the source at position i + 1; a [members x timestamps]      *)
(* array is kept as the sequence of its columns, one per timestamp.        *)
(***************************************************************************)
\* what a division by zero leaves in a numpy array
NaN == <<1, 0>>

\* a / b on numbers, a and b whole
Divide(a, b) == IF b = 0 THEN NaN ELSE IF b < 0 THEN Norm(-a, -b) ELSE Norm(a, b)

\* a / b on fractions
RDiv(a, b) == Divide(a[1] * b[2], a[2] * b[1])

RECURSIVE Sum(_)
\* np.sum
Sum(a) == IF a = <<>> THEN 0 ELSE Head(a) + Sum(Tail(a))

compute_individual_payment(net_energy, tou_price, fit_price) ==
    IF net_energy > 0 THEN net_energy * tou_price ELSE net_energy * fit_price

compute_community_payment(community_net_energy, tou_price, fit_price) ==
    IF community_net_energy > 0
    THEN community_net_energy * tou_price
    ELSE community_net_energy * fit_price

compute_timestamp_data(consumption, generation, tou_price, fit_price) ==
    LET net_energy == [i \in 1..Len(consumption) |-> consumption[i] - generation[i]]
        individual_payments ==
            [i \in 1..Len(consumption) |->
                compute_individual_payment(consumption[i] - generation[i], tou_price, fit_price)]
    IN  [net_energy |-> net_energy,
         individual_payments |-> individual_payments,
         community_net_energy |-> Sum(net_energy),
         community_gain |->
             Sum(individual_payments)
             - compute_community_payment(Sum(net_energy), tou_price, fit_price)]

\* the community gain of a timestamp
Gain(consumption, generation, tou_price, fit_price) ==
    compute_timestamp_data(consumption, generation, tou_price, fit_price).community_gain

\* variant: every member is given the whole gain
equal_sharing_whole(consumption, generation, tou_price, fit_price) ==
    [i \in 1..Len(consumption) |-> R(Gain(consumption, generation, tou_price, fit_price))]

equal_sharing(consumption, generation, tou_price, fit_price) ==
    [i \in 1..Len(consumption) |->
        Divide(Gain(consumption, generation, tou_price, fit_price), Len(consumption))]

\* variant: no `if total_generation == 0` before the division
generation_based_sharing_unguarded(consumption, generation, tou_price, fit_price) ==
    [i \in 1..Len(consumption) |->
        IF Sum(generation) = 0 THEN NaN
        ELSE RMul(Divide(generation[i], Sum(generation)),
                  R(Gain(consumption, generation, tou_price, fit_price)))]

generation_based_sharing(consumption, generation, tou_price, fit_price) ==
    IF Sum(generation) = 0
    THEN equal_sharing(consumption, generation, tou_price, fit_price)
    ELSE [i \in 1..Len(consumption) |->
             RMul(Divide(generation[i], Sum(generation)),
                  R(Gain(consumption, generation, tou_price, fit_price)))]

consumption_based_sharing(consumption, generation, tou_price, fit_price) ==
    IF Sum(consumption) = 0
    THEN equal_sharing(consumption, generation, tou_price, fit_price)
    ELSE [i \in 1..Len(consumption) |->
             RMul(Divide(consumption[i], Sum(consumption)),
                  R(Gain(consumption, generation, tou_price, fit_price)))]

\* a[mask] with mask[member_idx] = False
Masked(a, member_idx) ==
    [k \in 1..(Len(a) - 1) |-> IF k < member_idx THEN a[k] ELSE a[k + 1]]

compute_gain_without_member(consumption, generation, member_idx, tou_price, fit_price) ==
    IF Len(consumption) = 1 THEN 0
    ELSE Gain(Masked(consumption, member_idx), Masked(generation, member_idx),
              tou_price, fit_price)

\* marginal_contributions[i] = full_gain - gain_without_i
marginal_contributions(consumption, generation, tou_price, fit_price) ==
    [i \in 1..Len(consumption) |->
        Gain(consumption, generation, tou_price, fit_price)
        - compute_gain_without_member(consumption, generation, i, tou_price, fit_price)]

\* abs(mc_sum) < 1e-10 is mc_sum = 0 on whole numbers
marginal_contribution_sharing(consumption, generation, tou_price, fit_price) ==
    With(marginal_contributions(consumption, generation, tou_price, fit_price), LAMBDA mc :
        IF Sum(mc) = 0
        THEN equal_sharing(consumption, generation, tou_price, fit_price)
        ELSE [i \in 1..Len(consumption) |->
                 RMul(Divide(mc[i], Sum(mc)),
                      R(Gain(consumption, generation, tou_price, fit_price)))])

normalize_allocations(allocations, target_sum) ==
    With(RSum(allocations), LAMBDA current_sum :
        IF current_sum = R(0)
        THEN [i \in 1..Len(allocations) |-> Divide(target_sum, Len(allocations))]
        ELSE [i \in 1..Len(allocations) |->
                 RMul(allocations[i], RDiv(R(target_sum), current_sum))])

\* the allocations of the loop over the members, before they are normalised
CooperativeShares(net_energy, base) ==
    LET deficit_sum == Sum([i \in 1..Len(net_energy) |->
                               IF net_energy[i] > 0 THEN net_energy[i] ELSE 0])
        surplus_sum == Sum([i \in 1..Len(net_energy) |->
                               IF net_energy[i] < 0 THEN net_energy[i] ELSE 0])
    IN  [i \in 1..Len(net_energy) |->
            IF net_energy[i] > 0
            THEN IF deficit_sum > 0
                 THEN RMul(RSub(R(1), Divide(net_energy[i], deficit_sum)), base)
                 ELSE base
            ELSE IF net_energy[i] < 0
                 THEN IF surplus_sum < 0
                      THEN RMul(RAdd(R(1), Divide(net_energy[i], surplus_sum)), base)
                      ELSE base
                 ELSE base]

cooperative_game_sharing(consumption, generation, tou_price, fit_price) ==
    With(compute_timestamp_data(consumption, generation, tou_price, fit_price), LAMBDA data :
        normalize_allocations(
            CooperativeShares(data.net_energy, Divide(data.community_gain, Len(consumption))),
            data.community_gain))

characteristic_function(consumption, generation, coalition_indices, tou_price, fit_price) ==
    IF coalition_indices = <<>> THEN 0
    ELSE Gain([k \in 1..Len(coalition_indices) |-> consumption[coalition_indices[k]]],
              [k \in 1..Len(coalition_indices) |-> generation[coalition_indices[k]]],
              tou_price, fit_price)

\* numpy's global generator: it has RngModulus states, np.random.seed(s) puts it in
\* state s % RngModulus, every draw moves it to the next state, and what a draw
\* returns is a function of the state it was made in
RngModulus == 6
\* random_seed=None
NoSeed == -1

\* variant: the seed is not applied
seed_ignored(state, random_seed) == state

\* if random_seed is not None: np.random.seed(random_seed)
seed(state, random_seed) ==
    IF random_seed = NoSeed THEN state ELSE random_seed % RngModulus

RECURSIVE Shuffled(_, _)
\* the order a draw in state r puts the items in
Shuffled(items, r) ==
    IF items = <<>> THEN <<>>
    ELSE LET k == (r % Len(items)) + 1
         IN  <<items[k]>>
             \o Shuffled([j \in 1..(Len(items) - 1) |-> IF j < k THEN items[j] ELSE items[j + 1]],
                         r \div Len(items))

\* np.random.permutation(n_members) drawn in this state
permutation(n_members, state) == Shuffled([i \in 1..n_members |-> i], state)

\* the marginal contribution of every member in one permutation
PermutationContributions(consumption, generation, tou_price, fit_price, perm) ==
    [i \in 1..Len(consumption) |->
        LET k == CHOOSE k \in 1..Len(perm) : perm[k] = i
        IN  characteristic_function(consumption, generation, SubSeq(perm, 1, k),
                                    tou_price, fit_price)
            - characteristic_function(consumption, generation, SubSeq(perm, 1, k - 1),
                                      tou_price, fit_price)]

RECURSIVE SampleLoop(_, _, _, _, _, _, _)
\* for k in range(n_permutations): ... shapley_values[i] += marginal_contribution
SampleLoop(consumption, generation, tou_price, fit_price, k, state, shapley_values) ==
    IF k = 0 THEN [shapley_values |-> shapley_values, rng |-> state]
    ELSE With(PermutationContributions(consumption, generation, tou_price, fit_price,
                                       permutation(Len(consumption), state)),
              LAMBDA mc :
                  SampleLoop(consumption, generation, tou_price, fit_price, k - 1,
                             (state + 1) % RngModulus,
                             [i \in 1..Len(consumption) |-> shapley_values[i] + mc[i]]))

\* gives the allocations, the generator's state afterwards and the sum the
\* normalisation divides by
shapley_value_sharing(consumption, generation, tou_price, fit_price, n_permutations, random_seed, state) ==
    With(SampleLoop(consumption, generation, tou_price, fit_price, n_permutations,
                    seed(state, random_seed), [i \in 1..Len(consumption) |-> 0]),
         LAMBDA l :
             With([i \in 1..Len(consumption) |-> Divide(l.shapley_values[i], n_permutations)],
                  LAMBDA shapley_values :
                      [allocations |->
                           normalize_allocations(
                               shapley_values,
                               Gain(consumption, generation, tou_price, fit_price)),
                       current_sum |-> RSum(shapley_values),
                       rng |-> l.rng]))

\* ValueSharingMethod
ValueSharingMethod == {"EQ", "G-based", "C-based", "MC", "Shapley", "CG"}

\* the allocation of one timestamp by the method's function
ShareTimestamp(method, c, g, tou, fit, n_permutations, timestamp_seed, state) ==
    IF method = "Shapley"
    THEN shapley_value_sharing(c, g, tou, fit, n_permutations, timestamp_seed, state)
    ELSE [allocations |->
              CASE method = "EQ" -> equal_sharing(c, g, tou, fit)
                [] method = "G-based" -> generation_based_sharing(c, g, tou, fit)
                [] method = "C-based" -> consumption_based_sharing(c, g, tou, fit)
                [] method = "MC" -> marginal_contribution_sharing(c, g, tou, fit)
                [] method = "CG" -> cooperative_game_sharing(c, g, tou, fit),
          current_sum |-> R(0),
          rng |-> state]

RECURSIVE Timeseries(_, _, _, _, _, _)
\* for h in range(n_timestamps) of the *_sharing_timeseries functions, from timestamp
\* h on; timestamp_seed = None if random_seed is None else random_seed + h
Timeseries(inp, method, n_permutations, random_seed, h, state) ==
    IF h > Len(inp.consumption)
    THEN [allocations |-> <<>>, total_community_gains |-> <<>>, current_sums |-> <<>>,
          rng |-> state]
    ELSE With(ShareTimestamp(method, inp.consumption[h], inp.generation[h],
                             inp.tou_prices[h], inp.fit_prices[h], n_permutations,
                             IF random_seed = NoSeed THEN NoSeed ELSE random_seed + (h - 1),
                             state),
              LAMBDA r :
                  With(Timeseries(inp, method, n_permutations, random_seed, h + 1, r.rng),
                       LAMBDA rest :
                           [allocations |-> <<r.allocations>> \o rest.allocations,
                            total_community_gains |->
                                <<Gain(inp.consumption[h], inp.generation[h],
                                       inp.tou_prices[h], inp.fit_prices[h])>>
                                \o rest.total_community_gains,
                            current_sums |-> <<r.current_sum>> \o rest.current_sums,
                            rng |-> rest.rng]))

\* the call and what it returns: the allocations and summary['total_community_gain']
apply_value_sharing(inp, method, shapley_permutations, random_seed, state) ==
    With(Timeseries(inp, method, shapley_permutations, random_seed, 1, state), LAMBDA r :
        [called |-> TRUE, inp |-> inp, method |-> method,
         shapley_permutations |-> shapley_permutations, random_seed |-> random_seed,
         allocations |-> r.allocations,
         total_community_gains |-> r.total_community_gains,
         total_community_gain |-> Sum(r.total_community_gains),
         current_sums |-> r.current_sums,
         rng |-> r.rng])

\* apply_value_sharing has not been called
NoSharing ==
    [called |-> FALSE, inp |-> <<>>, method |-> "none", shapley_permutations |-> 0,
     random_seed |-> NoSeed, allocations |-> <<>>, total_community_gains |-> <<>>,
     total_community_gain |-> 0, current_sums |-> <<>>, rng |-> 0]

(***************************************************************************)
(* The round: LEMCommunity configures a mechanism, collects the agents'    *)
(* bids into a fresh market and runs the configured mechanism on them.     *)
(***************************************************************************)
VARIABLES
    pricing_mechanism,  \* LEMCommunity.pricing_mechanism ("unset" before the first set)
    raised,             \* the exception the last call raised, "none" if it returned
    bids,               \* the bid frame of the round's market
    call,               \* the mechanism run on the market and the price bounds given to it
    trans,              \* the ledger the mechanism returned
    extra,              \* the summary the mechanism returned
    frames,             \* trans_UP, bidsUP, bids_uncovered, bidsM as the call left them
    up_prev,            \* the frame given to, and the result of, the previous
                        \* uniform_price_mechanism call on bids
    cgts_prev,          \* num_samples of the two_steps_CGTS_mechanism call on bids and,
                        \* once it is called again, the result of the previous call
    loop,               \* the while loop of iterative_price_adjustment and
                        \* nash_bargaining_solution: position and locals
    rng,                \* the state of numpy's global generator
    vs,                 \* the last apply_value_sharing call and what it returned
    vs_prev,            \* the apply_value_sharing call before it
    aup                 \* adjusted_uniform_price_mechanism: position in the for loop
                        \* and locals

vars ==
    <<pricing_mechanism, raised, bids, call, trans, extra, frames, up_prev, cgts_prev,
      loop, rng, vs, vs_prev, aup>>

\* what a market round leaves alone
sharing == <<loop, rng, vs, vs_prev, aup>>
\* what a value-sharing call leaves alone
round ==
    <<pricing_mechanism, raised, bids, call, trans, extra, frames, up_prev, cgts_prev>>

\* pm.market.MECHANISM after LEM_agents is imported: the keys LEM_agents adds
MECHANISM ==
    {"uniform", "UP", "AUP", "MUP", "UPNR", "APM", "MPAS", "CFRM", "WAM", "MMP", "IPA",
     "VCG", "NBS", "CGT", "CGTS", "COLM"}

\* identifiers a caller may pass to set_pricing_mechanism
Identifiers == MECHANISM \cup {"XYZ"}

Offers == [buying : BOOLEAN, quantity : 1..MaxQty, price : Prices]

FramesOfLen(n) ==
    {[k \in 1..n |-> Row(k, c[k].buying, c[k].quantity, c[k].price)] : c \in [1..n -> Offers]}

\* the bid set of the uniform-price example: buy 10 @ 0.30, buy 5 @ 0.20,
\* sell 8 @ 0.10, sell 10 @ 0.25
ExampleBids ==
    <<Row(1, TRUE, 10, 30), Row(2, TRUE, 5, 20), Row(3, FALSE, 8, 10), Row(4, FALSE, 10, 25)>>

BidSets == UNION {FramesOfLen(n) : n \in 0..MaxBids} \cup {ExampleBids}

\* kwargs
Alphas == {<<1, 2>>, <<1, 1>>}
Thetas == {<<1, 10>>, <<1, 2>>}
epsilon == <<1, 1>>
CapFloors == {[floor |-> R(FIT), cap |-> R(TOU)], [floor |-> R(1000), cap |-> R(10000)]}
NBSKwargs ==
    {[theta |-> <<1, 10>>, floor |-> R(1000), cap |-> R(10000)],
     [theta |-> <<1, 2>>, floor |-> R(FIT), cap |-> R(TOU)]}
\* prices the Newton-Raphson search may end on
NRPrices == {R(5), <<35, 2>>, R(25), R(30)}

NoCall == [mechanism |-> "none", lo |-> None, hi |-> None]
NoFrames == [trans_UP |-> <<>>, bidsUP |-> <<>>, bids_uncovered |-> <<>>, bidsM |-> <<>>]
NoPrev ==
    [ran |-> FALSE, bids |-> <<>>, trans |-> <<>>, clearing_quantity |-> NoneQ,
     clearing_price |-> None]

\* no two_steps_CGTS_mechanism call yet
NoSamples == [num_samples |-> 0, ran |-> FALSE, trans |-> <<>>, price |-> None]

\* the price loop has not been entered
NoLoop ==
    [pc |-> "idle", bids |-> <<>>, MP |-> None, adjusted_price |-> None, theta |-> None,
     epsilon |-> None, floor |-> None, cap |-> None]

\* before adjusted_uniform_price_mechanism is called
NoAUP ==
    [pc |-> "idle", bids |-> <<>>, step |-> None, max_iterations |-> 0, iteration |-> 0,
     current_bids |-> <<>>, updated_bids |-> <<>>, trans_all |-> <<>>,
     results_log |-> <<>>, result |-> [clearing_quantity |-> NoneQ, clearing_price |-> None],
     extra |-> [clearing_quantity |-> NoneQ, clearing_price |-> None]]

Init ==
    /\ pricing_mechanism = "unset"
    /\ raised = "none"
    /\ bids = <<>>
    /\ call = NoCall
    /\ trans = <<>>
    /\ extra = NoExtra
    /\ frames = NoFrames
    /\ up_prev = NoPrev
    /\ cgts_prev = NoSamples
    /\ loop = NoLoop
    /\ rng = 0
    /\ vs = NoSharing
    /\ vs_prev = NoSharing
    /\ aup = NoAUP

\* variant: the registry check accepts every identifier
RegisteredAlways(m) == TRUE

\* if pricing_mechanism not in pm.market.MECHANISM: raise ValueError
Registered(m) == m \in MECHANISM

\* LEMCommunity.set_pricing_mechanism
SetPricingMechanism(m) ==
    /\ call = NoCall
    /\ IF Registered(m)
       THEN pricing_mechanism' = m /\ raised' = "none"
       ELSE pricing_mechanism' = pricing_mechanism /\ raised' = "ValueError"
    /\ UNCHANGED <<bids, call, trans, extra, frames, up_prev, cgts_prev, sharing>>

\* the state a mechanism call on frame b leaves behind
Settle(b, m, lo, hi, out) ==
    /\ bids' = b
    /\ call' = [mechanism |-> m, lo |-> lo, hi |-> hi]
    /\ raised' = out.raised
    /\ trans' = out.trans
    /\ extra' = out.extra
    /\ frames' = [trans_UP |-> out.trans_UP, bidsUP |-> out.bidsUP,
                  bids_uncovered |-> out.bids_uncovered, bidsM |-> out.bidsM]
    /\ UNCHANGED <<pricing_mechanism, up_prev, sharing>>

\* market.run(self.pricing_mechanism) on the bids the agents submitted
Runs(m) == call = NoCall /\ pricing_mechanism = m

\* variant: the fills are subtracted from the caller's frame
BidsAfterUPInPlace(f, up) == ApplyTrans(f, up.trans)

\* the caller's frame after uniform_price_mechanism returns: it works on copies
BidsAfterUP(f, up) == f

StepUP ==
    /\ call = NoCall
    /\ pricing_mechanism \in {"UP", "uniform"}
    /\ \E b \in BidSets :
          Settle(BidsAfterUP(b, uniform_price_mechanism(b)), pricing_mechanism,
                 None, None, UPOutcome(b))
    /\ UNCHANGED cgts_prev

\* uniform_price_mechanism called once more on the same frame
RerunUP ==
    /\ call.mechanism \in {"UP", "uniform"}
    /\ ~up_prev.ran
    /\ up_prev' = [ran |-> TRUE, bids |-> bids, trans |-> trans,
                   clearing_quantity |-> extra.clearing_quantity,
                   clearing_price |-> extra.clearing_price]
    /\ LET out == UPOutcome(bids)
       IN  /\ bids' = BidsAfterUP(bids, uniform_price_mechanism(bids))
           /\ raised' = out.raised
           /\ trans' = out.trans
           /\ extra' = out.extra
    /\ UNCHANGED <<pricing_mechanism, call, frames, cgts_prev, sharing>>

StepAPM ==
    /\ Runs("APM")
    /\ \E b \in BidSets : Settle(b, "APM", R(FIT), R(TOU), two_steps_APM_mechanism(b))
    /\ UNCHANGED cgts_prev

StepCFRM ==
    /\ Runs("CFRM")
    /\ \E b \in BidSets : Settle(b, "CFRM", R(FIT), R(TOU), two_steps_CFRM_mechanism(b))
    /\ UNCHANGED cgts_prev

StepWAM ==
    /\ Runs("WAM")
    /\ \E b \in BidSets : Settle(b, "WAM", R(FIT), R(TOU), two_steps_WAM_mechanism(b))
    /\ UNCHANGED cgts_prev

StepMMP ==
    /\ Runs("MMP")
    /\ \E b \in BidSets : Settle(b, "MMP", R(FIT), R(TOU), two_steps_MMP_mechanism(b))
    /\ UNCHANGED cgts_prev

StepMPAS ==
    /\ Runs("MPAS")
    /\ \E b \in BidSets, alpha \in Alphas :
          Settle(b, "MPAS", R(FIT), R(TOU), two_steps_MPAS_mechanism(b, alpha))
    /\ UNCHANGED cgts_prev

StepIPA ==
    /\ Runs("IPA")
    /\ \E b \in BidSets, theta \in Thetas :
          Settle(b, "IPA", R(FIT), R(TOU),
                 two_steps_IPA_mechanism(b, theta, epsilon, R(FIT), R(TOU)))
    /\ UNCHANGED cgts_prev

StepMUP ==
    /\ Runs("MUP")
    /\ \E b \in BidSets : Settle(b, "MUP", R(FIT), R(TOU), two_steps_UPM_mechanism(b))
    /\ UNCHANGED cgts_prev

StepUPNR ==
    /\ Runs("UPNR")
    /\ \E b \in BidSets, found \in NRPrices :
          Settle(b, "UPNR", R(FIT), R(TOU),
                 two_steps_UPNR_mechanism(b, found, R(FIT), R(TOU)))
    /\ UNCHANGED cgts_prev

StepNBS ==
    /\ Runs("NBS")
    /\ \E b \in BidSets, kw \in NBSKwargs :
          Settle(b, "NBS", kw.floor, kw.cap,
                 two_steps_NBS_mechanism(b, kw.cap, kw.floor, kw.theta, epsilon))
    /\ UNCHANGED cgts_prev

StepVCG ==
    /\ Runs("VCG")
    /\ \E b \in BidSets, kw \in CapFloors :
          Settle(b, "VCG", kw.floor, kw.cap, two_steps_VCG_mechanism(b, kw.cap, kw.floor))
    /\ UNCHANGED cgts_prev

StepCGT ==
    /\ Runs("CGT")
    /\ \E b \in BidSets, kw \in CapFloors :
          Settle(b, "CGT", kw.floor, kw.cap, two_steps_CGT_mechanism(b, kw.cap, kw.floor))
    /\ UNCHANGED cgts_prev

StepCGTS ==
    /\ Runs("CGTS")
    /\ \E b \in BidSets, kw \in CapFloors, num_samples \in 1..MaxSamples :
          \E orders \in [1..num_samples -> Orderings(Ids(Primary(b).bids_uncovered))] :
              /\ Settle(b, "CGTS", kw.floor, kw.cap,
                        two_steps_CGTS_mechanism(b, kw.cap, kw.floor, orders))
              /\ cgts_prev' = [NoSamples EXCEPT !.num_samples = num_samples]

\* two_steps_CGTS_mechanism called once more on the same frame with the same kwargs.
\* The function takes no seed: random.shuffle draws from the interpreter's generator,
\* whatever its state is, so the sampled orders of the second call are free.
RerunCGTS ==
    /\ call.mechanism = "CGTS"
    /\ ~cgts_prev.ran
    /\ cgts_prev' = [cgts_prev EXCEPT !.ran = TRUE, !.trans = trans, !.price = extra.price]
    /\ \E orders \in [1..cgts_prev.num_samples -> Orderings(Ids(Primary(bids).bids_uncovered))] :
          LET out == two_steps_CGTS_mechanism(bids, call.hi, call.lo, orders)
          IN  /\ raised' = out.raised
              /\ trans' = out.trans
              /\ extra' = out.extra
    /\ UNCHANGED <<pricing_mechanism, bids, call, frames, up_prev, sharing>>

\* LEMAgent.generate_market_offer: the bid of an agent with this net balance, its
\* price drawn and clipped to [FIT, TOU]
generate_market_offer(agent_id, net_balance, price) ==
    IF net_balance < 0
    THEN Row(agent_id, TRUE, -net_balance, Clip(R(price), R(FIT), R(TOU))[1])
    ELSE Row(agent_id, FALSE, net_balance, Clip(R(price), R(FIT), R(TOU))[1])

\* LEMCommunity.step with the uniform-price mechanism configured: every agent bids
\* its net balance, the market runs if some agent has a surplus
StepMarket ==
    /\ call = NoCall
    /\ pricing_mechanism = "uniform"
    /\ \E n \in 1..MaxBids :
          \E net_balance \in [1..n -> (-MaxQty)..MaxQty], price \in [1..n -> Prices] :
              /\ \E i \in 1..n : net_balance[i] > 0
              /\ With([i \in 1..n |-> generate_market_offer(i, net_balance[i], price[i])],
                      LAMBDA b : Settle(BidsAfterUP(b, uniform_price_mechanism(b)), "uniform",
                                       None, None, UPOutcome(b)))
    /\ UNCHANGED cgts_prev

Next ==
    \/ \E m \in Identifiers : SetPricingMechanism(m)
    \/ StepMarket
    \/ RerunCGTS
    \/ StepUP
    \/ RerunUP
    \/ StepAPM
    \/ StepCFRM
    \/ StepWAM
    \/ StepMMP
    \/ StepMPAS
    \/ StepIPA
    \/ StepMUP
    \/ StepUPNR
    \/ StepNBS
    \/ StepVCG
    \/ StepCGT
    \/ StepCGTS

Spec == Init /\ [][Next]_vars

(***************************************************************************)
(* The residual functions called on an uncovered set, and the price loop   *)
(* of iterative_price_adjustment and nash_bargaining_solution taken one    *)
(* pass at a time.                                                         *)
(***************************************************************************)
\* the uncovered set of the midpoint example: buy 4 @ 0.22, sell 4 @ 0.18
MidpointExample == <<Row(1, TRUE, 4, 22), Row(2, FALSE, 4, 18)>>

\* bids a caller hands to a residual function: a price inside [FIT, TOU] and one above
UncoveredOffers == [buying : BOOLEAN, quantity : 1..MaxQty, price : {20, 30}]

\* frames with a buyer and a seller left
UncoveredSets ==
    {f \in {[k \in 1..n |-> c[k]] : n \in 2..MaxUncovered,
                                    c \in [1..MaxUncovered -> UncoveredOffers]} :
        Buyers(f) # <<>> /\ Sellers(f) # <<>>}

\* cap_and_floor_range_midpoint(bids_uncovered, trans) on a fresh ledger; FIT and TOU
\* are the defaults of the wrapper
CallCFRM ==
    /\ call = NoCall
    /\ loop = NoLoop
    /\ \E c \in UncoveredSets \cup {MidpointExample} :
          With([k \in 1..Len(c) |-> Row(k, c[k].buying, c[k].quantity, c[k].price)],
               LAMBDA bu :
                   /\ bids' = bu
                   /\ call' = [mechanism |-> "cap_and_floor_range_midpoint",
                               lo |-> R(FIT), hi |-> R(TOU)]
                   /\ raised' = "none"
                   /\ trans' = cap_and_floor_range_midpoint(bu).trans
                   /\ extra' = [NoExtra EXCEPT !.price = cap_and_floor_range_midpoint(bu).price]
                   /\ frames' = [NoFrames EXCEPT !.bids_uncovered = bu,
                                                 !.bidsM = cap_and_floor_range_midpoint(bu).bids])
    /\ UNCHANGED <<pricing_mechanism, up_prev, cgts_prev, sharing>>

LoopThetas == {<<1, 10>>, <<1, 2>>, <<9, 10>>}
LoopEpsilons == {<<1, 100>>, <<1, 1>>}
\* FIT and TOU (floor and cap for nash_bargaining_solution) given to the loop
LoopRanges ==
    {[floor |-> R(FIT), cap |-> R(TOU)], [floor |-> R(TOU), cap |-> R(TOU)],
     [floor |-> R(TOU), cap |-> R(2 * TOU)]}

\* adjusted_price = MP, then `while True:` is reached.  The loop reads the highest
\* and the lowest price of the frame only: a buyer and a seller give every pair.
LoopFrames == {<<Row(1, TRUE, 1, pb), Row(2, FALSE, 1, ps)>> : pb \in Prices, ps \in Prices}

LoopEnter ==
    /\ call = NoCall
    /\ loop = NoLoop
    /\ \E bu \in LoopFrames, MP \in Prices, theta \in LoopThetas,
           eps \in LoopEpsilons, range \in LoopRanges :
          loop' = [pc |-> "while", bids |-> bu, MP |-> R(MP), adjusted_price |-> R(MP),
                   theta |-> theta, epsilon |-> eps, floor |-> range.floor,
                   cap |-> range.cap]
    /\ UNCHANGED <<pricing_mechanism, raised, bids, call, trans, extra, frames, up_prev,
                   cgts_prev, rng, vs, vs_prev, aup>>

\* variant: the test never succeeds
ConvergedNever(np, adj, eps) == FALSE

\* if abs(new_price - adjusted_price) < epsilon: break
Converged(np, adj, eps) == RLt(RAbs(RSub(np, adj)), eps)

\* one pass of the body of the while loop
LoopBody ==
    /\ loop.pc = "while"
    /\ \E np \in {new_price(loop.bids, loop.adjusted_price, loop.theta, loop.floor, loop.cap)} :
          IF Converged(np, loop.adjusted_price, loop.epsilon)
          THEN loop' = [loop EXCEPT !.pc = "done"]
          ELSE loop' = [loop EXCEPT !.adjusted_price = np]
    /\ UNCHANGED <<pricing_mechanism, raised, bids, call, trans, extra, frames, up_prev,
                   cgts_prev, rng, vs, vs_prev, aup>>

NextResidual ==
    \/ CallCFRM
    \/ LoopEnter
    \/ LoopBody

\* the loop is code that runs: a pass that can be taken is taken
SpecResidual == Init /\ [][NextResidual]_vars /\ WF_vars(LoopBody)

(***************************************************************************)
(* apply_value_sharing called on a community's data, other code drawing    *)
(* from numpy's generator, and the call made once more.                    *)
(***************************************************************************)
\* the tariffs of a timestamp
Tariffs == {[tou |-> TOU, fit |-> FIT], [tou |-> FIT, fit |-> FIT]}

\* the data of n members over one timestamp or over two, the second with every
\* member's consumption and generation exchanged
SharingInput(n, c, g, t, two) ==
    LET consumption == [i \in 1..n |-> c[i]]
        generation == [i \in 1..n |-> g[i]]
    IN  IF two
        THEN [consumption |-> <<consumption, generation>>,
              generation |-> <<generation, consumption>>,
              tou_prices |-> <<t.tou, t.tou>>, fit_prices |-> <<t.fit, t.fit>>]
        ELSE [consumption |-> <<consumption>>, generation |-> <<generation>>,
              tou_prices |-> <<t.tou>>, fit_prices |-> <<t.fit>>]

SharingInputs ==
    {SharingInput(n, c, g, t, two) :
        n \in 1..MaxMembers, c \in [1..MaxMembers -> 0..MaxEnergy],
        g \in [1..MaxMembers -> 0..MaxEnergy], t \in Tariffs, two \in BOOLEAN}

\* random_seed values a caller passes
Seeds == {NoSeed, 1, 4}

\* the first call.  Only the Shapley method reads shapley_permutations and
\* random_seed: the other methods are called with the defaults.
ApplyValueSharing ==
    /\ call = NoCall
    /\ loop = NoLoop
    /\ ~vs.called
    /\ \E inp \in SharingInputs, method \in ValueSharingMethod,
          shapley_permutations \in 1..MaxPermutations, random_seed \in Seeds :
          /\ method # "Shapley" => shapley_permutations = 1 /\ random_seed = NoSeed
          /\ With(apply_value_sharing(inp, method, shapley_permutations, random_seed, rng),
                  LAMBDA r : vs' = r /\ rng' = r.rng)
    /\ UNCHANGED <<round, loop, vs_prev, aup>>

\* other code draws from np.random between the two calls
Draw ==
    /\ vs.method = "Shapley"
    /\ ~vs_prev.called
    /\ rng' = (rng + 1) % RngModulus
    /\ UNCHANGED <<round, loop, vs, vs_prev, aup>>

\* the Shapley call made once more with the arguments of the first
ApplyAgain ==
    /\ vs.method = "Shapley"
    /\ ~vs_prev.called
    /\ vs_prev' = vs
    /\ With(apply_value_sharing(vs.inp, vs.method, vs.shapley_permutations, vs.random_seed,
                                rng),
            LAMBDA r : vs' = r /\ rng' = r.rng)
    /\ UNCHANGED <<round, loop, aup>>

NextSharing ==
    \/ ApplyValueSharing
    \/ Draw
    \/ ApplyAgain

SpecSharing == Init /\ [][NextSharing]_vars

(***************************************************************************)
(* pricing_AUP.adjusted_uniform_price_mechanism: the uniform price         *)
(* mechanism run again on what is left, after every buyer's price went up  *)
(* and every seller's price went down by step.  The frames of the loop     *)
(* hold prices in units of 1/AUPScale of a hundredth, so that              *)
(* price * (1 + step) and price * (1 - step) are whole numbers in every    *)
(* pass the loop makes.                                                    *)
(***************************************************************************)
RECURSIVE Power(_, _)
Power(b, k) == IF k = 0 THEN 1 ELSE b * Power(b, k - 1)

AUPScale == Power(10, MaxIterations)

\* kwargs.pop('step', 0.1): the default, and a larger step
Steps == {<<1, 10>>, <<1, 2>>}

\* current_bids = bids.copy(), its prices in the units of the loop
InLoopUnits(f) == [k \in 1..Len(f) |-> [f[k] EXCEPT !.price = @ * AUPScale]]

\* a price of the loop in hundredths
InHundredths(p) == IF p = None THEN None ELSE Norm(p[1], p[2] * AUPScale)

\* row['bid'], row['quantity'], row['price'] of a row of trans_iter
Merged(t) == [k \in 1..Len(t) |-> Tx(t[k].bid, t[k].quantity, InHundredths(t[k].price))]

\* variant: the fills of the pass are not subtracted
UpdatedBidsAsBefore(current_bids, trans_iter) == current_bids

\* updated_bids = current_bids.copy(), then for each row of trans_iter:
\* updated_bids.loc[bid_index, 'quantity'] -= quantity
UpdatedBids(current_bids, trans_iter) == ApplyTrans(current_bids, trans_iter)

\* if unsold_quantity == 0 or demanded_quantity == 0: break
NothingLeft(f) == SumQ(Sellers(f)) = 0 \/ SumQ(Buyers(f)) = 0

\* price * (1 + step) for a buyer, price * (1 - step) for a seller,
\* then .clip(lower=FIT, upper=TOU)
AdjustedPrice(r, step) ==
    With(IF r.buying THEN (r.price * (step[2] + step[1])) \div step[2]
                     ELSE (r.price * (step[2] - step[1])) \div step[2], LAMBDA price :
        IF price < FIT * AUPScale THEN FIT * AUPScale
        ELSE IF price > TOU * AUPScale THEN TOU * AUPScale
        ELSE price)

AdjustPrices(f, step) ==
    [k \in 1..Len(f) |-> [f[k] EXCEPT !.price = AdjustedPrice(f[k], step)]]

\* results_log.append({...})
Logged(iteration, result, current_bids) ==
    [iteration |-> iteration,
     clearing_price |-> InHundredths(result.clearing_price),
     clearing_quantity |-> result.clearing_quantity,
     demand_quantity |-> SumQ(Buyers(current_bids)),
     supply_quantity |-> SumQ(Sellers(current_bids))]

\* one pass of the body of `for iteration in range(1, max_iterations + 1)`
AUPPass(a) ==
    With(uniform_price_mechanism(a.current_bids), LAMBDA result :
    With(UpdatedBids(a.current_bids, result.trans), LAMBDA updated :
        [a EXCEPT
            !.iteration = a.iteration + 1,
            !.trans_all = a.trans_all \o Merged(result.trans),
            !.results_log = Append(a.results_log,
                                   Logged(a.iteration + 1, result, a.current_bids)),
            !.result = [clearing_quantity |-> result.clearing_quantity,
                        clearing_price |-> InHundredths(result.clearing_price)],
            !.updated_bids = updated,
            !.current_bids = IF NothingLeft(updated) THEN a.current_bids
                             ELSE AdjustPrices(updated, a.step),
            !.pc = IF NothingLeft(updated) \/ a.iteration + 1 = a.max_iterations
                   THEN "return" ELSE "for"]))

\* adjusted_uniform_price_mechanism(bids, step=..., max_iterations=...) up to the loop
CallAUP ==
    /\ call = NoCall
    /\ loop = NoLoop
    /\ ~vs.called
    /\ aup.pc = "idle"
    /\ \E b \in BidSets, step \in Steps, max_iterations \in 1..MaxIterations :
          aup' = [NoAUP EXCEPT !.pc = "for", !.bids = b, !.step = step,
                               !.max_iterations = max_iterations,
                               !.current_bids = InLoopUnits(b),
                               !.updated_bids = InLoopUnits(b)]
    /\ UNCHANGED <<round, loop, rng, vs, vs_prev>>

AUPIteration ==
    /\ aup.pc = "for"
    /\ aup' = AUPPass(aup)
    /\ UNCHANGED <<round, loop, rng, vs, vs_prev>>

\* total_traded_quantity = round(trans_all.get_df()['quantity'].sum(), 4) and the return
AUPReturn ==
    /\ aup.pc = "return"
    /\ aup' = [aup EXCEPT !.pc = "done",
                          !.extra = [clearing_quantity |-> SumQ(aup.trans_all),
                                     clearing_price |-> aup.result.clearing_price]]
    /\ UNCHANGED <<round, loop, rng, vs, vs_prev>>

NextAUP ==
    \/ CallAUP
    \/ AUPIteration
    \/ AUPReturn

SpecAUP == Init /\ [][NextAUP]_vars

(***************************************************************************)
(* Properties.                                                             *)
(***************************************************************************)
TwoStep == {"APM", "CFRM", "WAM", "MMP", "MPAS", "IPA", "MUP", "UPNR", "NBS", "VCG",
            "CGT", "CGTS"}
UniformPrice == {"UP", "uniform"}

\* a two-step mechanism ran on bids and returned
Settled == call.mechanism \in TwoStep /\ raised = "none"

RECURSIVE TradedBy(_, _)
\* the quantity the ledger t records against bid i
TradedBy(t, i) ==
    IF t = <<>> THEN 0
    ELSE (IF Head(t).bid = i THEN Head(t).quantity ELSE 0) + TradedBy(Tail(t), i)

\* aggregate uncovered buy and sell quantity right after the primary clearing
UncoveredBuy == SumQ(Buyers(frames.bidsUP))
UncoveredSell == SumQ(Sellers(frames.bidsUP))

\* the ledger rows the residual phase added
ResidualRows == SubSeq(trans, Len(frames.trans_UP) + 1, Len(trans))

\* the candidate clearing prices of a frame and the largest quantity one of them trades
Candidates(f) == PriceSet(Buyers(f)) \cup PriceSet(Sellers(f))
MaxTraded(f) ==
    CHOOSE q \in {traded_qty(f, p) : p \in Candidates(f)} :
        \A p \in Candidates(f) : traded_qty(f, p) <= q
Maximisers(f) == {p \in Candidates(f) : traded_qty(f, p) = MaxTraded(f)}
Lowest(S) == CHOOSE x \in S : \A y \in S : x <= y
\* no buy bid, no sell bid, or no candidate price that trades anything
NothingToClear(f) ==
    \/ Buyers(f) = <<>>
    \/ Sellers(f) = <<>>
    \/ \A p \in Candidates(f) : traded_qty(f, p) = 0

\* C1: after a two-step mechanism settles, the ledger's quantities against any one
\* bid sum to at most the bid's quantity, and no bid's remaining quantity is negative
\* or above its quantity.
C1_NoOverAllocation ==
    Settled =>
        /\ \A k \in 1..Len(bids) :
              /\ TradedBy(trans, bids[k].id) <= bids[k].quantity
              /\ TradedBy(trans, bids[k].id) >= 0
        /\ \A k \in 1..Len(frames.bidsM) : frames.bidsM[k].quantity >= 0

\* C2: every price APM, CFRM, WAM, MMP, MPAS, MUP and IPA write to the ledger lies
\* within [FIT, TOU], the bounds given to the call.
C2_LedgerPricesWithinBounds ==
    Settled /\ call.mechanism \in {"APM", "CFRM", "WAM", "MMP", "MPAS", "MUP", "IPA"} =>
        \A k \in 1..Len(ResidualRows) :
            /\ RLeq(call.lo, ResidualRows[k].price)
            /\ RLeq(ResidualRows[k].price, call.hi)

\* C3: for every two-step mechanism but Newton-Raphson (UPNR), the residual quantity
\* in the summary is min(uncovered buy quantity, uncovered sell quantity) as measured
\* right after the primary clearing (so zero when a side is empty).
C3_ResidualQuantityIsShortSide ==
    Settled /\ call.mechanism # "UPNR" =>
        extra.quantity = Min(UncoveredBuy, UncoveredSell)

\* C4: when some candidate price trades a positive quantity,
\* find_clearing_price_and_quantity returns the largest traded(p) over the candidate
\* prices and the lowest candidate price that reaches it.
C4_ClearingMaximisesTradedLowestPrice ==
    call.mechanism \in UniformPrice /\ ~NothingToClear(bids) =>
        /\ find_clearing_price_and_quantity(bids).quantity = MaxTraded(bids)
        /\ find_clearing_price_and_quantity(bids).price = R(Lowest(Maximisers(bids)))

\* C4 witness: two candidate prices trade the largest quantity, the lower is returned
C4_TieSeen ==
    /\ call.mechanism \in UniformPrice
    /\ ~NothingToClear(bids)
    /\ Cardinality(Maximisers(bids)) >= 2
    /\ extra.clearing_price = R(Lowest(Maximisers(bids)))

\* C5: when the primary clearing is not empty, the buy quantity at prices >= the
\* clearing price is at least the sell quantity at prices <= the clearing price.
C5_DemandCoversSupply ==
    call.mechanism \in UniformPrice /\ extra.clearing_price # None =>
        SumQGeq(Buyers(bids), extra.clearing_price[1])
            >= SumQLeq(Sellers(bids), extra.clearing_price[1])

\* C6 as stated: the example bid set clears at 0.20 for 15, seller 3 filled for 8,
\* seller 4 for 7, buyers 1 and 2 for 10 and 5.
C6_ExampleClearsAt20 ==
    call.mechanism \in UniformPrice /\ bids = ExampleBids =>
        /\ extra.clearing_price = R(20)
        /\ extra.clearing_quantity = 15
        /\ TradedBy(trans, 3) = 8
        /\ TradedBy(trans, 4) = 7
        /\ TradedBy(trans, 1) = 10
        /\ TradedBy(trans, 2) = 5

\* C6 amended: the example bid set clears at 0.25 for 10, seller 3 filled for 8,
\* seller 4 for 2, buyer 1 for 10 and buyer 2 not at all.
C6_ExampleClearsAt25 ==
    call.mechanism \in UniformPrice /\ bids = ExampleBids =>
        /\ extra.clearing_price = R(25)
        /\ extra.clearing_quantity = 10
        /\ trans = <<Tx(3, 8, R(25)), Tx(4, 2, R(25)), Tx(1, 10, R(25))>>
        /\ TradedBy(trans, 2) = 0

\* C6 witness: the uniform-price mechanism ran on the example bid set
C6_ExampleRan ==
    call.mechanism \in UniformPrice /\ bids = ExampleBids /\ trans # <<>>

C8_EmptyClearing ==
    call.mechanism \in UniformPrice /\ NothingToClear(bids) =>
        /\ raised = "none"
        /\ extra.clearing_quantity = 0
        /\ extra.clearing_price = None
        /\ trans = <<>>

\* C8 witness: both sides bid, no candidate price trades, the result is empty
C8_NoIntersectionSeen ==
    /\ call.mechanism \in UniformPrice
    /\ Buyers(bids) # <<>>
    /\ Sellers(bids) # <<>>
    /\ NothingToClear(bids)
    /\ extra.clearing_quantity = 0

\* C9: when the uncovered buy quantity or the uncovered sell quantity is zero after
\* the primary clearing, a two-step mechanism returns without error, its ledger is
\* the primary ledger, the residual quantity is 0 and the residual price is the
\* primary clearing price.
C9_ResidualNotInvoked ==
    call.mechanism \in TwoStep /\ (UncoveredBuy = 0 \/ UncoveredSell = 0) =>
        /\ raised = "none"
        /\ trans = frames.trans_UP
        /\ extra.quantity = 0
        /\ extra.price = extra.clearing_price

\* C9 witness: the primary clearing traded and left only one side uncovered
C9_OneSideLeft ==
    /\ call.mechanism \in TwoStep
    /\ frames.trans_UP # <<>>
    /\ UncoveredBuy > 0
    /\ UncoveredSell = 0
    /\ extra.price = extra.clearing_price

\* C10: set_pricing_mechanism with an identifier outside the registry raises
\* ValueError and leaves the configured mechanism (and everything else) as it was;
\* neither the configured mechanism nor a mechanism run on a market is ever outside
\* the registry.
C10_UnknownMechanismRejected ==
    /\ [](pricing_mechanism \in MECHANISM \cup {"unset"})
    /\ [](call.mechanism \in MECHANISM \cup {"none"})
    /\ [][\A m \in Identifiers \ MECHANISM :
            SetPricingMechanism(m) =>
                /\ raised' = "ValueError"
                /\ UNCHANGED <<pricing_mechanism, bids, call, trans, extra, frames>>]_vars

\* C10 witness: an unknown identifier was rejected while a mechanism was configured
C10_RejectedSeen == raised = "ValueError" /\ pricing_mechanism \in MECHANISM

RECURSIVE TradedAgainst(_, _, _)
\* the quantity the ledger t records against the bids of frame f on one side
TradedAgainst(t, f, buying) ==
    IF t = <<>> THEN 0
    ELSE (IF RowOf(f, Head(t).bid).buying = buying THEN Head(t).quantity ELSE 0)
         + TradedAgainst(Tail(t), f, buying)

\* a bid with no positive quantity
Malformed(f) == \E k \in 1..Len(f) : f[k].quantity <= 0

\* C11: a round whose bid set holds a bid of quantity <= 0 is rejected before any
\* clearing: the settlement reports an error and records no transaction.
C11_MalformedBidRejected ==
    call.mechanism \in UniformPrice /\ Malformed(bids) =>
        /\ raised # "none"
        /\ trans = <<>>

\* C12: a second run of two_steps_CGTS_mechanism on the same bids with the same
\* num_samples gives the transactions of the first run, in the same order, and the
\* same reported CGT price.
C12_RerunGivesSameLedger ==
    cgts_prev.ran =>
        /\ trans = cgts_prev.trans
        /\ extra.price = cgts_prev.price

\* C12 witness: the Monte-Carlo Shapley step traded in a run that was repeated
C12_RerunTraded == cgts_prev.ran /\ ResidualRows # <<>> /\ Len(frames.bids_uncovered) >= 3

\* C13: every transaction of cap_and_floor_range_midpoint carries the price
\* mean(average uncovered buy price, average uncovered sell price) clipped to
\* [FIT, TOU]; for {buy 4 @ 0.22, sell 4 @ 0.18} it is one trade of 4 at 0.20.
C13_MidpointClipped ==
    call.mechanism = "cap_and_floor_range_midpoint" =>
        /\ \A k \in 1..Len(trans) :
              trans[k].price =
                  Clip(RDivInt(RAdd(MeanPrice(Buyers(bids)), MeanPrice(Sellers(bids))), 2),
                       call.lo, call.hi)
        /\ bids = MidpointExample =>
              /\ Len(trans) = 1
              /\ trans[1].quantity = 4
              /\ trans[1].price = R(20)

\* C14: when the price Newton-Raphson finds is above TOU or below FIT, no residual
\* row is added to the ledger, no uncovered bid's quantity changes and the residual
\* quantity reported is 0; every residual row recorded has a price in [FIT, TOU].
C14_OutOfRangePriceNoTrade ==
    Settled /\ call.mechanism = "UPNR" =>
        /\ \A k \in 1..Len(ResidualRows) :
              RLeq(call.lo, ResidualRows[k].price) /\ RLeq(ResidualRows[k].price, call.hi)
        /\ ResidualRows = <<>> =>
              frames.bidsM = frames.bids_uncovered /\ extra.quantity = 0
        /\ \A found \in NRPrices :
              RLt(call.hi, found) \/ RLt(found, call.lo) =>
                  /\ two_steps_UPNR_mechanism(bids, found, call.lo, call.hi).trans
                        = frames.trans_UP
                  /\ two_steps_UPNR_mechanism(bids, found, call.lo, call.hi).bidsM
                        = frames.bids_uncovered
                  /\ two_steps_UPNR_mechanism(bids, found, call.lo, call.hi).extra.quantity = 0

\* C14 witness: both sides were left uncovered and the price found was refused
C14_PriceRefused ==
    /\ Settled
    /\ call.mechanism = "UPNR"
    /\ UncoveredBuy > 0
    /\ UncoveredSell > 0
    /\ ResidualRows = <<>>
    /\ extra.quantity = 0

\* the allocations of timestamp h summed over the members
AllocatedAt(h) == RSum(vs.allocations[h])

\* C15: for every value-sharing method, at each timestamp the members' allocations
\* sum to the community gain of the timestamp, and all allocations together to
\* summary['total_community_gain'].
C15_BudgetBalance ==
    vs.called =>
        /\ \A h \in 1..Len(vs.allocations) :
              AllocatedAt(h) = R(vs.total_community_gains[h])
        /\ RSum([h \in 1..Len(vs.allocations) |-> AllocatedAt(h)])
              = R(vs.total_community_gain)

\* C15 witness: a positive gain was shared between two members over two timestamps
C15_GainShared ==
    /\ vs.called
    /\ vs.method = "CG"
    /\ Len(vs.allocations) = 2
    /\ Len(vs.allocations[1]) = 2
    /\ vs.total_community_gains[1] > 0
    /\ vs.allocations[1][1] # vs.allocations[1][2]

\* C16: a second Shapley call on the same data with the same number of permutations
\* and the same random_seed returns the allocations of the first, whatever was drawn
\* from the generator in between.
C16_SameSeedSameAllocations ==
    vs_prev.called /\ vs.random_seed # NoSeed => vs.allocations = vs_prev.allocations

\* C16 witness: a seeded call was repeated on data where the sampled order matters
C16_SeededCallRepeated ==
    /\ vs_prev.called
    /\ vs.random_seed # NoSeed
    /\ vs.total_community_gains[1] > 0
    /\ vs.allocations[1][1] # vs.allocations[1][2]

\* the aggregate the method divides by is zero at timestamp h
ZeroAggregate(h) ==
    \/ vs.method = "G-based" /\ Sum(vs.inp.generation[h]) = 0
    \/ vs.method = "C-based" /\ Sum(vs.inp.consumption[h]) = 0
    \/ vs.method = "MC"
       /\ Sum(marginal_contributions(vs.inp.consumption[h], vs.inp.generation[h],
                                     vs.inp.tou_prices[h], vs.inp.fit_prices[h])) = 0
    \/ vs.method = "Shapley" /\ vs.current_sums[h] = R(0)

\* C17: when the aggregate a method divides by is zero at a timestamp, or the
\* community has one member, no allocation is the result of a division by zero and
\* every member is given community_gain / n for the timestamp.
C17_ZeroAggregateEqualSplit ==
    vs.called =>
        \A h \in 1..Len(vs.allocations) :
            /\ \A i \in 1..Len(vs.allocations[h]) : vs.allocations[h][i][2] # 0
            /\ ZeroAggregate(h) \/ Len(vs.allocations[h]) = 1 =>
                  \A i \in 1..Len(vs.allocations[h]) :
                      vs.allocations[h][i]
                          = Norm(vs.total_community_gains[h], Len(vs.allocations[h]))

\* C17 witness: generation-based sharing with consumption and no generation
C17_NoGeneration ==
    /\ vs.called
    /\ vs.method = "G-based"
    /\ Len(vs.allocations[1]) = 2
    /\ Sum(vs.inp.generation[1]) = 0
    /\ Sum(vs.inp.consumption[1]) > 0

\* C18: for APM, CFRM, WAM, MMP, MPAS and IPA, when the residual phase runs, the
\* residual rows against the long side's bids and those against the short side's
\* bids both total the short side's uncovered quantity.
C18_LongSideFilled ==
    /\ Settled
    /\ call.mechanism \in {"APM", "CFRM", "WAM", "MMP", "MPAS", "IPA"}
    /\ UncoveredBuy > 0
    /\ UncoveredSell > 0
    => /\ TradedAgainst(ResidualRows, bids, TRUE) = Min(UncoveredBuy, UncoveredSell)
       /\ TradedAgainst(ResidualRows, bids, FALSE) = Min(UncoveredBuy, UncoveredSell)

C20_PriceLoopTerminates == (loop.pc = "while") ~> (loop.pc = "done")

\* C20 witness: the loop ended after the price moved, on the price the function uses
C20_LoopEnded ==
    /\ loop.pc = "done"
    /\ loop.adjusted_price # loop.MP
    /\ loop.adjusted_price
          = PriceLoop(loop.bids, loop.MP, loop.theta, loop.epsilon, loop.floor, loop.cap)

\* (max price + min price) / 2 of the uncovered bids the loop works on
RangeMidpoint == RDivInt(RAdd(R(MaxPrice(loop.bids)), R(MinPrice(loop.bids))), 2)

\* the distance of price p from the midpoint of the range, before and after a step
Distance(p) == RAbs(RSub(p, RangeMidpoint))
DistanceNext(p) == RAbs(RSub(p, RangeMidpoint'))

\* C21: a pass of the iterative_price_adjustment loop never takes the price further
\* from the midpoint (max price + min price) / 2 of the uncovered bids.
C21_MovesTowardMidpoint ==
    [][loop.pc = "while" /\ loop'.pc = "while"
         => RLeq(DistanceNext(loop'.adjusted_price), Distance(loop.adjusted_price))]_vars

\* the mechanisms whose residual function matches buyers and sellers pair by pair
PairwiseMatching == {"NBS", "VCG", "CGT", "CGTS"}

RECURSIVE PairsUseRemaining(_, _)
\* the ledger rows taken two by two, a buyer's row then a seller's, replayed on the
\* frame cur of remaining quantities: each pair trades min(buyer's remaining,
\* seller's remaining) and no buyer with nothing remaining is matched
PairsUseRemaining(rows, cur) ==
    IF Len(rows) < 2 THEN TRUE
    ELSE /\ RowOf(cur, rows[1].bid).quantity > 0
         /\ rows[1].quantity = Min(RowOf(cur, rows[1].bid).quantity,
                                   RowOf(cur, rows[2].bid).quantity)
         /\ rows[2].quantity = rows[1].quantity
         /\ PairsUseRemaining(SubSeq(rows, 3, Len(rows)),
                              ApplyTrans(cur, SubSeq(rows, 1, 2)))

\* C22: in the pairwise matching of NBS, VCG, CGT and CGTS every pair trades
\* min(buyer's current remaining quantity, seller's current remaining quantity) and
\* a buyer whose remaining quantity has reached zero is not matched again.
C22_PairTradesCurrentRemaining ==
    Settled /\ call.mechanism \in PairwiseMatching =>
        PairsUseRemaining(ResidualRows, frames.bids_uncovered)

\* C23: in VCG the two rows recorded for a matched pair carry one price, the mean
\* of the buyer's P_Bi and the seller's P_Sj, each clipped to [floor, cap].
C23_PairAtMeanPrice ==
    Settled /\ call.mechanism = "VCG" =>
        \A k \in 1..(Len(ResidualRows) \div 2) :
            LET P_Bi == VCGPrice(frames.bids_uncovered,
                                 RowOf(frames.bids_uncovered, ResidualRows[2 * k - 1].bid),
                                 call.hi, call.lo, extra.clearing_price)
                P_Sj == VCGPrice(frames.bids_uncovered,
                                 RowOf(frames.bids_uncovered, ResidualRows[2 * k].bid),
                                 call.hi, call.lo, extra.clearing_price)
            IN  /\ ResidualRows[2 * k - 1].price = ResidualRows[2 * k].price
                /\ ResidualRows[2 * k].price = RDivInt(RAdd(P_Bi, P_Sj), 2)

RECURSIVE MediatedPairs(_, _)
\* the ledger rows taken two by two, replayed on the frame cur of remaining
\* quantities: both bids of a match have something left, both rows carry
\* min(remaining, remaining) and the mean of the two bid prices
MediatedPairs(rows, cur) ==
    IF Len(rows) < 2 THEN rows = <<>>
    ELSE /\ RowOf(cur, rows[1].bid).quantity > 0
         /\ RowOf(cur, rows[2].bid).quantity > 0
         /\ RowOf(cur, rows[1].bid).buying # RowOf(cur, rows[2].bid).buying
         /\ rows[1].quantity = Min(RowOf(cur, rows[1].bid).quantity,
                                   RowOf(cur, rows[2].bid).quantity)
         /\ rows[2].quantity = rows[1].quantity
         /\ rows[1].price = Norm(RowOf(cur, rows[1].bid).price
                                 + RowOf(cur, rows[2].bid).price, 2)
         /\ rows[2].price = rows[1].price
         /\ MediatedPairs(SubSeq(rows, 3, Len(rows)), ApplyTrans(cur, SubSeq(rows, 1, 2)))

\* the rows of frame f on the short side of the uncovered bids
ShortSideOf(f) == IF UncoveredBuy > UncoveredSell THEN Sellers(f) ELSE Buyers(f)

PricesOf(t) == {t[k].price : k \in 1..Len(t)}

RECURSIVE RSumSet(_)
\* the sum of a set of prices
RSumSet(S) ==
    IF S = {} THEN R(0)
    ELSE LET p == CHOOSE q \in S : TRUE IN RAdd(p, RSumSet(S \ {p}))

\* the mean of the prices of the rows of t, each row counted once
MeanOfRows(t) == RDiv(RSum([k \in 1..Len(t) |-> t[k].price]), R(Len(t)))

\* the mean of the different prices used in t
MeanOfPrices(t) == RDiv(RSumSet(PricesOf(t)), R(Cardinality(PricesOf(t))))

\* C25: when the residual phase records a transaction, the residual price of the
\* summary is the price of the residual rows, or the mean of their prices when
\* several were used (over the rows or over the different prices).
C25_ReportedPriceIsLedgerPrice ==
    Settled /\ ResidualRows # <<>> =>
        \/ extra.price = MeanOfRows(ResidualRows)
        \/ extra.price = MeanOfPrices(ResidualRows)

\* the primary clearing of the round's bids is empty although both sides bid
EmptyPrimaryBothSides ==
    /\ call.mechanism \in TwoStep
    /\ SumQ(Buyers(bids)) > 0
    /\ SumQ(Sellers(bids)) > 0
    /\ Primary(bids).UPprice = None

\* C26: when the primary clearing is empty although buy and sell bids of positive
\* quantity exist, every two-step mechanism returns without raising and reports a
\* numeric residual price and quantity.
C26_EmptyPrimaryStillCompletes ==
    EmptyPrimaryBothSides =>
        /\ raised = "none"
        /\ extra.price # None
        /\ extra.quantity # NoneQ

\* C27: every transaction a mechanism writes to the ledger, in the primary clearing
\* or in the residual phase, has a quantity greater than 0.
C27_PositiveQuantities ==
    call # NoCall => \A k \in 1..Len(trans) : trans[k].quantity > 0

\* C30: on the same bids, cap and floor, two_steps_CGTS_mechanism records the
\* transactions and reports the price of two_steps_CGT_mechanism, for every
\* num_samples and every sequence of sampled orders.
C30_SampledEqualsExact ==
    call.mechanism = "CGTS" /\ raised = "none" =>
        /\ trans = two_steps_CGT_mechanism(bids, call.hi, call.lo).trans
        /\ extra.price = two_steps_CGT_mechanism(bids, call.hi, call.lo).extra.price
        /\ extra.quantity = two_steps_CGT_mechanism(bids, call.hi, call.lo).extra.quantity

\* C30 witness: a first sampled run that traded between three uncovered bids
C30_SampledRunTraded ==
    /\ call.mechanism = "CGTS"
    /\ raised = "none"
    /\ ~cgts_prev.ran
    /\ Len(frames.bids_uncovered) >= 3
    /\ Len(ResidualRows) >= 4


\* C28: in adjusted_uniform_price_mechanism, after every pass of the loop and for
\* every step and max_iterations >= 1, the quantity the ledger records against a
\* bid is at most the bid's original quantity and no bid's remaining quantity is
\* negative; the loop makes no pass after one that left no buy or no sell
\* quantity, and ends before max_iterations passes only for that reason.
C28_NoOverAllocation ==
    aup.pc # "idle" =>
        /\ \A k \in 1..Len(aup.bids) :
              /\ TradedBy(aup.trans_all, aup.bids[k].id) <= aup.bids[k].quantity
              /\ aup.updated_bids[k].quantity >= 0
              /\ aup.current_bids[k].quantity >= 0
        /\ (aup.iteration >= 1 /\ NothingLeft(aup.updated_bids) => aup.pc # "for")
        /\ (aup.pc # "for" =>
               NothingLeft(aup.updated_bids) \/ aup.iteration = aup.max_iterations)

\* a run that traded in two passes, one bid filled in both, and then stopped
\* before max_iterations because one side was left empty
C28_FilledOverTwoPasses ==
    /\ aup.pc = "done"
    /\ aup.iteration = 2
    /\ aup.max_iterations > 2
    /\ aup.results_log[1].clearing_quantity > 0
    /\ aup.results_log[2].clearing_quantity > 0
    /\ \E k \in 1..Len(aup.bids) :
          /\ aup.bids[k].quantity > aup.results_log[1].clearing_quantity
          /\ TradedBy(aup.trans_all, aup.bids[k].id) = aup.bids[k].quantity

RECURSIVE LoggedQuantity(_)
\* the sum of the clearing_quantity entries of results_log
LoggedQuantity(log) ==
    IF log = <<>> THEN 0 ELSE Head(log).clearing_quantity + LoggedQuantity(Tail(log))

\* C29: the 'clearing quantity' adjusted_uniform_price_mechanism returns is the
\* sum over the passes of the clearing quantities logged in results_log.
C29_ClearingQuantityIsLoggedSum ==
    aup.pc = "done" => aup.extra.clearing_quantity = LoggedQuantity(aup.results_log)

====
